---- MODULE Spec2Model ----
(***************************************************************************)
(* Warehouse-robot fleet controller: the grid path planner in its two      *)
(* strategies (A* with direct-path shortcut, BFS), the blocked-cell        *)
(* computation, and the per-tick task allocator of the advanced           *)
(* controller with its reservation ledger, battery handling and           *)
(* stuck/recovery monitor.                                                 *)
(***************************************************************************)
EXTENDS Integers, Sequences, FiniteSets, TLC

(***************************************************************************)
(* Bounds of the model.                                                    *)
(***************************************************************************)
Cols == 3
Rows == 3
MaxBlocked == 2
MaxTicks == 24
SoloTicks == 40
MaxFaults == 2

(***************************************************************************)
(* Action vocabulary and facings.                                          *)
(***************************************************************************)
NOOP == 0
FORWARD == 1
LEFT == 2
RIGHT == 3
TOGGLE_LOAD == 4

UP == 0
DOWN == 1
DIR_LEFT == 2
DIR_RIGHT == 3

Dirs == {UP, DOWN, DIR_LEFT, DIR_RIGHT}
Cells == {<<x, y>> : x \in 0..(Cols - 1), y \in 0..(Rows - 1)}

Abs(n) == IF n < 0 THEN -n ELSE n

\* Position not present in a map / optional value absent.
None == <<>>

(***************************************************************************)
(* Planner helpers shared by both strategies.                              *)
(***************************************************************************)
\* _is_position_valid with an off-by-one upper bound.
_is_position_valid_Loose(pos) ==
    /\ 0 <= pos[1] /\ pos[1] <= Cols
    /\ 0 <= pos[2] /\ pos[2] <= Rows

_is_position_valid(pos) ==
    /\ 0 <= pos[1] /\ pos[1] < Cols
    /\ 0 <= pos[2] /\ pos[2] < Rows

\* Cell in front of (pos, dir), as the validator computes it.
Ahead(pos, dir) ==
    CASE dir = UP        -> <<pos[1], pos[2] - 1>>
      [] dir = DOWN      -> <<pos[1], pos[2] + 1>>
      [] dir = DIR_LEFT  -> <<pos[1] - 1, pos[2]>>
      [] dir = DIR_RIGHT -> <<pos[1] + 1, pos[2]>>

\* Direction transition of a turn action in the validator.
TurnDir(dir, action) ==
    IF action = LEFT
    THEN CASE dir = 0 -> 2 [] dir = 1 -> 3 [] dir = 2 -> 1 [] dir = 3 -> 0
    ELSE CASE dir = 0 -> 3 [] dir = 1 -> 2 [] dir = 2 -> 0 [] dir = 3 -> 1

RECURSIVE _validate_action_sequence(_, _, _, _)
_validate_action_sequence(pos, dir, actions, blocked) ==
    IF actions = <<>> THEN TRUE
    ELSE LET action == Head(actions) IN
         IF action = FORWARD
         THEN LET new == Ahead(pos, dir) IN
              IF ~_is_position_valid(new) \/ new \in blocked
              THEN FALSE
              ELSE _validate_action_sequence(new, dir, Tail(actions), blocked)
         ELSE IF action \in {LEFT, RIGHT}
         THEN _validate_action_sequence(pos, TurnDir(dir, action), Tail(actions), blocked)
         ELSE _validate_action_sequence(pos, dir, Tail(actions), blocked)

\* _turn_to_face with the quarter turns of the table exchanged.
_turn_to_face_Mirrored(current, desired) ==
    IF current = desired THEN <<>>
    ELSE CASE current = 0 /\ desired = 1 -> <<LEFT, LEFT>>
           [] current = 0 /\ desired = 2 -> <<RIGHT>>
           [] current = 0 /\ desired = 3 -> <<LEFT>>
           [] current = 1 /\ desired = 0 -> <<LEFT, LEFT>>
           [] current = 1 /\ desired = 2 -> <<LEFT>>
           [] current = 1 /\ desired = 3 -> <<RIGHT>>
           [] current = 2 /\ desired = 0 -> <<LEFT>>
           [] current = 2 /\ desired = 1 -> <<RIGHT>>
           [] current = 2 /\ desired = 3 -> <<LEFT, LEFT>>
           [] current = 3 /\ desired = 0 -> <<RIGHT>>
           [] current = 3 /\ desired = 1 -> <<LEFT>>
           [] current = 3 /\ desired = 2 -> <<LEFT, LEFT>>

_turn_to_face(current, desired) ==
    IF current = desired THEN <<>>
    ELSE CASE current = 0 /\ desired = 1 -> <<LEFT, LEFT>>
           [] current = 0 /\ desired = 2 -> <<LEFT>>
           [] current = 0 /\ desired = 3 -> <<RIGHT>>
           [] current = 1 /\ desired = 0 -> <<LEFT, LEFT>>
           [] current = 1 /\ desired = 2 -> <<RIGHT>>
           [] current = 1 /\ desired = 3 -> <<LEFT>>
           [] current = 2 /\ desired = 0 -> <<RIGHT>>
           [] current = 2 /\ desired = 1 -> <<LEFT>>
           [] current = 2 /\ desired = 3 -> <<LEFT, LEFT>>
           [] current = 3 /\ desired = 0 -> <<LEFT>>
           [] current = 3 /\ desired = 1 -> <<RIGHT>>
           [] current = 3 /\ desired = 2 -> <<LEFT, LEFT>>

\* In-bounds 4-neighbours in the order (0,1), (1,0), (0,-1), (-1,0).
_get_neighbors(pos) ==
    SelectSeq(<< <<pos[1], pos[2] + 1>>, <<pos[1] + 1, pos[2]>>,
                 <<pos[1], pos[2] - 1>>, <<pos[1] - 1, pos[2]>> >>,
              _is_position_valid)

_heuristic(pos, goal) == Abs(pos[1] - goal[1]) + Abs(pos[2] - goal[2])

RECURSIVE _convert_path_to_actions(_, _, _)
_convert_path_to_actions(dir, pos, path) ==
    IF path = <<>> THEN <<>>
    ELSE LET next_pos == Head(path)
             dx == next_pos[1] - pos[1]
             dy == next_pos[2] - pos[2]
             desired == IF dx = 1 THEN 3
                        ELSE IF dx = -1 THEN 2
                        ELSE IF dy = 1 THEN 1
                        ELSE IF dy = -1 THEN 0
                        ELSE -1
         IN  IF desired = -1
             THEN _convert_path_to_actions(dir, pos, Tail(path))
             ELSE _turn_to_face(dir, desired) \o <<FORWARD>>
                    \o _convert_path_to_actions(desired, next_pos, Tail(path))

RECURSIVE Repeat(_, _)
Repeat(a, n) == IF n <= 0 THEN <<>> ELSE <<a>> \o Repeat(a, n - 1)

RECURSIVE Reverse(_)
Reverse(s) == IF s = <<>> THEN <<>> ELSE Reverse(Tail(s)) \o <<Head(s)>>

SeqToSet(s) == {s[i] : i \in 1..Len(s)}

(***************************************************************************)
(* Strategy A: direct Manhattan path, then A* search.                      *)
(***************************************************************************)
_is_direct_path_clear(start, end, blocked) ==
    LET x1 == start[1]
        y1 == start[2]
        x2 == end[1]
        y2 == end[2]
        xs == IF x2 > x1 THEN x1..(x2 - 1) ELSE (x2 + 1)..x1
        ys == IF y2 > y1 THEN y1..(y2 - 1) ELSE (y2 + 1)..y1
    IN  /\ (x1 # x2) => \A x \in xs : <<x, y1>> \notin blocked
        /\ (y1 # y2) => \A y \in ys : <<x2, y>> \notin blocked

\* _direct_movement whose forward loops run one step short.
_direct_movement_Short(pos, dir, goal_pos) ==
    LET dx == goal_pos[1] - pos[1]
        dy == goal_pos[2] - pos[2]
        xdir == IF dx > 0 THEN 3 ELSE 2
        ydir == IF dy > 0 THEN 1 ELSE 0
        xleg(d) == IF dx # 0
                   THEN [acts |-> _turn_to_face(d, xdir) \o Repeat(FORWARD, Abs(dx) - 1), dir |-> xdir]
                   ELSE [acts |-> <<>>, dir |-> d]
        yleg(d) == IF dy # 0
                   THEN [acts |-> _turn_to_face(d, ydir) \o Repeat(FORWARD, Abs(dy) - 1), dir |-> ydir]
                   ELSE [acts |-> <<>>, dir |-> d]
    IN  IF Abs(dx) > Abs(dy)
        THEN LET l1 == xleg(dir) IN l1.acts \o yleg(l1.dir).acts
        ELSE LET l1 == yleg(dir) IN l1.acts \o xleg(l1.dir).acts

_direct_movement(pos, dir, goal_pos) ==
    LET dx == goal_pos[1] - pos[1]
        dy == goal_pos[2] - pos[2]
        xdir == IF dx > 0 THEN 3 ELSE 2
        ydir == IF dy > 0 THEN 1 ELSE 0
        xleg(d) == IF dx # 0
                   THEN [acts |-> _turn_to_face(d, xdir) \o Repeat(FORWARD, Abs(dx)), dir |-> xdir]
                   ELSE [acts |-> <<>>, dir |-> d]
        yleg(d) == IF dy # 0
                   THEN [acts |-> _turn_to_face(d, ydir) \o Repeat(FORWARD, Abs(dy)), dir |-> ydir]
                   ELSE [acts |-> <<>>, dir |-> d]
    IN  IF Abs(dx) > Abs(dy)
        THEN LET l1 == xleg(dir) IN l1.acts \o yleg(l1.dir).acts
        ELSE LET l1 == yleg(dir) IN l1.acts \o xleg(l1.dir).acts

\* min(open_set, key=f_score): the first element of the list with least f.
RECURSIVE MinByF(_, _, _)
MinByF(open, f, best) ==
    IF open = <<>> THEN best
    ELSE MinByF(Tail(open), f, IF f[Head(open)] < f[best] THEN Head(open) ELSE best)

RemoveFirst(s, e) ==
    LET i == CHOOSE k \in 1..Len(s) : s[k] = e /\ \A j \in 1..(k - 1) : s[j] # e
    IN  SubSeq(s, 1, i - 1) \o SubSeq(s, i + 1, Len(s))

\* One pass of the neighbour loop of A*; st holds open_set, came_from, g_score, f_score.
RECURSIVE AStarExpand(_, _, _, _, _, _)
AStarExpand(st, nbrs, current, closed, blocked, goal_pos) ==
    IF nbrs = <<>> THEN st
    ELSE LET neighbor == Head(nbrs)
             tentative == st.g[current] + 1
             inOpen == neighbor \in SeqToSet(st.open)
         IN  IF neighbor \in closed \/ neighbor \in blocked
             THEN AStarExpand(st, Tail(nbrs), current, closed, blocked, goal_pos)
             ELSE IF inOpen /\ neighbor \in DOMAIN st.g /\ tentative >= st.g[neighbor]
             THEN AStarExpand(st, Tail(nbrs), current, closed, blocked, goal_pos)
             ELSE AStarExpand(
                    [open |-> IF inOpen THEN st.open ELSE Append(st.open, neighbor),
                     came |-> (neighbor :> current) @@ st.came,
                     g    |-> (neighbor :> tentative) @@ st.g,
                     f    |-> (neighbor :> (tentative + _heuristic(neighbor, goal_pos))) @@ st.f],
                    Tail(nbrs), current, closed, blocked, goal_pos)

\* Path reconstruction of A*: follows came_from from the goal, appending each predecessor.
RECURSIVE AStarReconstruct(_, _)
AStarReconstruct(current, came) ==
    IF current \in DOMAIN came
    THEN <<came[current]>> \o AStarReconstruct(came[current], came)
    ELSE <<>>

RECURSIVE AStarLoop(_, _, _, _, _, _)
AStarLoop(st, closed, pos, dir, goal_pos, blocked) ==
    IF st.open = <<>> THEN <<>>
    ELSE LET current == MinByF(Tail(st.open), st.f, Head(st.open)) IN
         IF current = goal_pos
         THEN LET path == Reverse(AStarReconstruct(current, st.came)) IN
              IF path = <<>> THEN <<>> ELSE _convert_path_to_actions(dir, pos, path)
         ELSE LET st1 == [st EXCEPT !.open = RemoveFirst(st.open, current)]
                  closed1 == closed \cup {current}
              IN  AStarLoop(AStarExpand(st1, _get_neighbors(current), current, closed1, blocked, goal_pos),
                            closed1, pos, dir, goal_pos, blocked)

AStar_pathfind_movement(pos, dir, goal_pos, blocked) ==
    AStarLoop([open |-> <<pos>>,
               came |-> << >>,
               g    |-> (pos :> 0),
               f    |-> (pos :> _heuristic(pos, goal_pos))],
              {}, pos, dir, goal_pos, blocked)

AStar_calculate_movement(pos, dir, goal_pos, blocked) ==
    IF ~_is_position_valid(goal_pos) THEN <<>>
    ELSE IF goal_pos \in blocked THEN <<>>
    ELSE LET direct == _direct_movement(pos, dir, goal_pos) IN
         IF /\ _is_direct_path_clear(pos, goal_pos, blocked)
            /\ _validate_action_sequence(pos, dir, direct, blocked)
         THEN direct
         ELSE LET actions == AStar_pathfind_movement(pos, dir, goal_pos, blocked) IN
              IF actions # <<>> /\ _validate_action_sequence(pos, dir, actions, blocked)
              THEN actions
              ELSE <<>>

(***************************************************************************)
(* Strategy B: breadth-first search.                                       *)
(***************************************************************************)
\* One pass of the neighbour loop of BFS; st holds queue, visited, found.
RECURSIVE BFSExpand(_, _, _, _, _)
BFSExpand(st, nbrs, current, goal_pos, blocked) ==
    IF nbrs = <<>> THEN st
    ELSE LET neighbor == Head(nbrs) IN
         IF neighbor = goal_pos
         THEN [st EXCEPT !.visited = (neighbor :> current) @@ st.visited, !.found = TRUE]
         ELSE IF neighbor \notin DOMAIN st.visited /\ neighbor \notin blocked
         THEN BFSExpand([st EXCEPT !.visited = (neighbor :> current) @@ st.visited,
                                   !.queue = Append(st.queue, neighbor)],
                        Tail(nbrs), current, goal_pos, blocked)
         ELSE BFSExpand(st, Tail(nbrs), current, goal_pos, blocked)

RECURSIVE BFSLoop(_, _, _)
BFSLoop(st, goal_pos, blocked) ==
    IF st.queue = <<>> \/ st.found THEN st
    ELSE LET current == Head(st.queue) IN
         BFSLoop(BFSExpand([st EXCEPT !.queue = Tail(st.queue)],
                           _get_neighbors(current), current, goal_pos, blocked),
                 goal_pos, blocked)

\* Path reconstruction of BFS: goal back to (excluding) the start.
\* BFSReconstruct that steps to the predecessor before appending, so the
\* goal cell is left out of the path.
RECURSIVE BFSReconstruct_DropGoal(_, _, _)
BFSReconstruct_DropGoal(current, start_pos, visited) ==
    IF current = start_pos \/ visited[current] = start_pos THEN <<>>
    ELSE <<visited[current]>> \o BFSReconstruct_DropGoal(visited[current], start_pos, visited)

RECURSIVE BFSReconstruct(_, _, _)
BFSReconstruct(current, start_pos, visited) ==
    IF current = start_pos THEN <<>>
    ELSE <<current>> \o BFSReconstruct(visited[current], start_pos, visited)

BFS_pathfind_movement(pos, dir, goal_pos, blocked) ==
    IF pos = goal_pos THEN <<>>
    ELSE LET st == BFSLoop([queue |-> <<pos>>, visited |-> (pos :> None), found |-> FALSE],
                           goal_pos, blocked)
         IN  IF ~st.found THEN <<>>
             ELSE _convert_path_to_actions(dir, pos,
                      Reverse(BFSReconstruct(goal_pos, pos, st.visited)))

BFS_calculate_movement(pos, dir, goal_pos, blocked) ==
    IF ~_is_position_valid(goal_pos) THEN <<>>
    ELSE IF goal_pos \in blocked THEN <<>>
    ELSE LET actions == BFS_pathfind_movement(pos, dir, goal_pos, blocked) IN
         IF actions # <<>> /\ _validate_action_sequence(pos, dir, actions, blocked)
         THEN actions
         ELSE <<>>

(***************************************************************************)
(* Replay of an action sequence by the world's motion rules: pose after    *)
(* the sequence, and whether every forward step stayed on free in-bounds   *)
(* cells.                                                                  *)
(***************************************************************************)
RECURSIVE ReplayEnd(_, _, _)
ReplayEnd(pos, dir, actions) ==
    IF actions = <<>> THEN [pos |-> pos, dir |-> dir]
    ELSE LET action == Head(actions) IN
         IF action = FORWARD THEN ReplayEnd(Ahead(pos, dir), dir, Tail(actions))
         ELSE IF action \in {LEFT, RIGHT} THEN ReplayEnd(pos, TurnDir(dir, action), Tail(actions))
         ELSE ReplayEnd(pos, dir, Tail(actions))

RECURSIVE ReplaySafe(_, _, _, _)
ReplaySafe(pos, dir, actions, blocked) ==
    IF actions = <<>> THEN TRUE
    ELSE LET action == Head(actions) IN
         IF action = FORWARD
         THEN LET new == Ahead(pos, dir) IN
              /\ new \in Cells
              /\ new \notin blocked
              /\ ReplaySafe(new, dir, Tail(actions), blocked)
         ELSE IF action \in {LEFT, RIGHT}
         THEN ReplaySafe(pos, TurnDir(dir, action), Tail(actions), blocked)
         ELSE ReplaySafe(pos, dir, Tail(actions), blocked)

(***************************************************************************)
(* State.                                                                  *)
(***************************************************************************)
VARIABLES
    plan,                   \* planner call under study: input, and the result of each strategy
    env,                    \* world snapshot: agents, shelfs, request_queue, obstacles, battery_drain
    agent_states,
    agent_targets,
    last_positions,
    stuck_count,
    last_actions,
    reserved_shelves,       \* shelf -> reserving agent, 0 when absent
    shelf_reservation_time, \* shelf -> tick of the reservation, -1 when absent
    current_step,
    pre_charging_data,
    assigned_waiting_areas,
    in_recovery,
    metrics,
    step,                   \* step counter of the run loop
    idx,                    \* position in get_actions: 0 before the call, i while agent i is next, then the world step
    actions,                \* action vector built by the current get_actions call
    picked,                 \* agent -> shelf of the pickup TOGGLE_LOAD it emitted in this call, 0 if none
    selected,               \* agent -> shelf its selection loop chose in this call, 0 if none
    purged,                 \* shelves whose reservation the current call purged
    failed_forward,         \* agent -> consecutive ticks whose FORWARD left it in place (at most 2)
    crashed,                \* an exception left get_actions
    budget,                 \* remaining ticks and world refusals of the run
    controller,             \* "advanced" (astar_algorithm) or "baseline" (baseline_algorithm)
    unreachable_shelves,    \* baseline: agent -> shelves it found too heavy
    no_movement_steps,      \* baseline: consecutive calls without any movement
    all_stuck_counter       \* baseline: consecutive calls with every agent stuck

(***************************************************************************)
(* World configuration of the controller runs: two agents, two shelves,    *)
(* one goal, charging stations in the four corners.                        *)
(***************************************************************************)
\* The agents a run may hold, and the agents of the world at hand in the
\* order of self.env.agents.
Fleet == {1, 2}
Agents == DOMAIN env.agents
AgentOrder == [i \in 1..Len(env.agents) |-> i]
Shelves == {1, 2}

max_carry_weight == <<2, 1>>
shelf_weight == <<1, 2>>
shelf_memory == << <<0, 1>>, <<2, 1>> >>
goal_locations == <<  <<1, 0>> >>
battery_capacity == 20
charge_rate == 6
InitPos == << <<1, 1>>, <<1, 2>> >>
InitDir == <<UP, UP>>

low_battery_threshold == 20
critical_battery_threshold == 10
ReservationTTL == 20
max_deliveries == 5

NoTarget == [has |-> FALSE, id |-> 0, position |-> <<-1, -1>>]
NoCell == <<-1, -1>>
NoData == [has |-> FALSE, state |-> "none", targets |-> NoTarget, shelf_id |-> 0]

\* First element of seq minimising key (a function on the elements), as
\* Python's min(list, key=...).
RECURSIVE MinByKey(_, _, _)
MinByKey(seq, key, best) ==
    IF seq = <<>> THEN best
    ELSE MinByKey(Tail(seq), key, IF key[Head(seq)] < key[best] THEN Head(seq) ELSE best)

\* Stable insertion of e into a sequence sorted by key.
RECURSIVE InsertByKey(_, _, _)
InsertByKey(sorted, e, key) ==
    IF sorted = <<>> THEN <<e>>
    ELSE IF key[e] < key[Head(sorted)] THEN <<e>> \o sorted
    ELSE <<Head(sorted)>> \o InsertByKey(Tail(sorted), e, key)

\* sorted(list, key=...): stable.
RECURSIVE SortedByKey(_, _)
SortedByKey(seq, key) ==
    IF seq = <<>> THEN <<>>
    ELSE InsertByKey(SortedByKey(SubSeq(seq, 1, Len(seq) - 1), key), seq[Len(seq)], key)

Manhattan(p, q) == Abs(p[1] - q[1]) + Abs(p[2] - q[2])

Carried(e, s) == \E a \in Agents : e.agents[a].carrying_shelf = s

_identify_charging_stations ==
    << <<0, 0>>, <<Cols - 1, 0>>, <<0, Rows - 1>>, <<Cols - 1, Rows - 1>> >>

charging_stations == _identify_charging_stations

_needs_charging(e, a) ==
    e.agents[a].battery_level * 100 < low_battery_threshold * battery_capacity

\* _get_closest_charging_station without the occupancy test.
_get_closest_charging_station_Nearest(e, a) ==
    LET current_pos == e.agents[a].pos
        dist == [st \in SeqToSet(charging_stations) |-> Manhattan(st, current_pos)]
    IN  IF current_pos \in SeqToSet(charging_stations) THEN NoCell
        ELSE Head(SortedByKey(charging_stations, dist))

_get_closest_charging_station(e, a) ==
    LET current_pos == e.agents[a].pos
        dist == [st \in SeqToSet(charging_stations) |-> Manhattan(st, current_pos)]
        stations_sorted == SortedByKey(charging_stations, dist)
        free(st) ==
            LET charging_agents == {o \in Agents : e.agents[o].pos = st} IN
            \/ charging_agents = {}
            \/ \E o \in charging_agents : e.agents[o].battery_level * 100 > 90 * battery_capacity
        candidates == SelectSeq(stations_sorted, free)
    IN  IF current_pos \in SeqToSet(charging_stations) THEN NoCell
        ELSE IF candidates # <<>> THEN Head(candidates)
        ELSE Head(stations_sorted)

_get_aligned_position(pos) ==
    LET clamp(v, hi) == IF v < 0 THEN 0 ELSE IF v > hi THEN hi ELSE v
    IN  <<clamp(pos[1], Cols - 1), clamp(pos[2], Rows - 1)>>

\* ShelfHelper.shelf_locations: the shelf cells recorded at construction.
_extract_shelf_locations == {_get_aligned_position(shelf_memory[s]) : s \in Shelves}

\* get_blocked_positions without the obstacle cells.
get_blocked_positions_NoObstacles(states, e, a) ==
    LET others == {e.agents[o].pos : o \in Agents \ {a}}
        carried == e.agents[a].carrying_shelf
        shelf_part ==
            IF states[a] \in {"deliver", "return_shelf", "charging"}
            THEN IF carried # 0
                 THEN _extract_shelf_locations \ {shelf_memory[carried]}
                 ELSE _extract_shelf_locations
            ELSE {}
    IN  others \cup shelf_part

get_blocked_positions(states, e, a) ==
    LET others == {e.agents[o].pos : o \in Agents \ {a}}
        carried == e.agents[a].carrying_shelf
        shelf_part ==
            IF states[a] \in {"deliver", "return_shelf", "charging"}
            THEN IF carried # 0
                 THEN _extract_shelf_locations \ {shelf_memory[carried]}
                 ELSE _extract_shelf_locations
            ELSE {}
    IN  e.obstacles \cup others \cup shelf_part

\* self.shelf_mover.calculate_movement(agent, goal_pos): the planner of the
\* ShelfCarryingMovement class the controller's module imported.
calculate_movement(c, e, a, goal_pos) ==
    IF c.controller = "baseline"
    THEN BFS_calculate_movement(e.agents[a].pos, e.agents[a].dir, goal_pos,
                                get_blocked_positions(c.agent_states, e, a))
    ELSE AStar_calculate_movement(e.agents[a].pos, e.agents[a].dir, goal_pos,
                                  get_blocked_positions(c.agent_states, e, a))

\* ReservedByOther with the age test inverted.
ReservedByOther_Inverted(c, s, a) ==
    /\ c.reserved_shelves[s] # 0
    /\ c.reserved_shelves[s] # a
    /\ (c.current_step - c.shelf_reservation_time[s]) >= ReservationTTL

ReservedByOther(c, s, a) ==
    /\ c.reserved_shelves[s] # 0
    /\ c.reserved_shelves[s] # a
    /\ (c.current_step - c.shelf_reservation_time[s]) < ReservationTTL

_can_carry_any_shelf(c, e, a) ==
    \E i \in 1..Len(e.request_queue) :
        LET s == e.request_queue[i] IN
        /\ ~Carried(e, s)
        /\ ~ReservedByOther(c, s, a)
        /\ shelf_weight[s] <= max_carry_weight[a]

AllPositions == [i \in 1..(Cols * Rows) |-> <<(i - 1) \div Rows, (i - 1) % Rows>>]

_identify_waiting_areas ==
    LET shelf_positions == {shelf_memory[s] : s \in Shelves}
        occupied == shelf_positions \cup SeqToSet(goal_locations) \cup SeqToSet(charging_stations)
        is_adjacent_to_shelf(pos) ==
            \E dx \in {-1, 0, 1}, dy \in {-1, 0, 1} :
                /\ <<dx, dy>> # <<0, 0>>
                /\ <<pos[1] + dx, pos[2] + dy>> \in shelf_positions
        ok(pos) == pos \notin occupied /\ ~is_adjacent_to_shelf(pos)
        notadj(pos) == ~is_adjacent_to_shelf(pos)
        available == SelectSeq(AllPositions, ok)
        corners == << <<0, 0>>, <<Cols - 1, 0>>, <<0, Rows - 1>>, <<Cols - 1, Rows - 1>> >>
        cavail == SelectSeq(corners, notadj)
    IN  IF available # <<>> THEN available
        ELSE IF cavail # <<>> THEN cavail
        ELSE corners

waiting_areas == _identify_waiting_areas

\* Returns the controller record with the assignment written, and the area.
_get_waiting_area(c, e, a) ==
    IF c.assigned_waiting_areas[a] # NoCell
    THEN [c |-> c, area |-> c.assigned_waiting_areas[a]]
    ELSE LET occupied_areas == {c.assigned_waiting_areas[o] : o \in Agents}
             free(area) == area \notin occupied_areas
             available_areas == SelectSeq(waiting_areas, free)
             dist == [p \in SeqToSet(waiting_areas) |-> Manhattan(p, e.agents[a].pos)]
             area == IF available_areas # <<>>
                     THEN MinByKey(Tail(available_areas), dist, Head(available_areas))
                     ELSE waiting_areas[(a % Len(waiting_areas)) + 1]
         IN  [c |-> [c EXCEPT !.assigned_waiting_areas[a] = area], area |-> area]

closest_goal(e, a) ==
    LET dist == [g \in SeqToSet(goal_locations) |-> Manhattan(g, e.agents[a].pos)]
    IN  MinByKey(Tail(goal_locations), dist, Head(goal_locations))

(***************************************************************************)
(* Advanced controller, per-agent body of get_actions.  c is the record    *)
(* of the controller's dictionaries while one agent is processed, plus the *)
(* action emitted for the agent (-1 while none), the shelf of a pickup     *)
(* TOGGLE_LOAD (0 if none) and whether an exception was raised; e is the   *)
(* world snapshot; a the agent id.  Wall-clock metrics are left out.       *)
(***************************************************************************)
Pct100(e, a) == e.agents[a].battery_level * 100

PosTarget(pos) == [has |-> TRUE, id |-> 0, position |-> pos]

_store_pre_charging_state(c, e, a) ==
    LET carried == e.agents[a].carrying_shelf
        st == c.agent_states[a]
        tg == c.agent_targets[a]
        targets ==
            IF ~tg.has THEN NoTarget
            ELSE IF st = "seek_shelf"
            THEN [has |-> TRUE, id |-> tg.id, position |-> tg.position]
            ELSE IF st = "deliver" /\ carried # 0
            THEN [has |-> TRUE, id |-> carried, position |-> closest_goal(e, a)]
            ELSE IF st = "return_shelf" /\ carried # 0
            THEN [has |-> TRUE, id |-> carried, position |-> shelf_memory[carried]]
            ELSE NoTarget
    IN  [c EXCEPT !.pre_charging_data[a] =
            [has |-> TRUE, state |-> st, targets |-> targets, shelf_id |-> carried]]
\* Lines 690-727: the saved target can be taken up again.
RestoreValid(data, e, a) ==
    IF ~data.targets.has THEN FALSE
    ELSE IF data.state = "seek_shelf"
    THEN data.targets.id \in SeqToSet(e.request_queue) /\ ~Carried(e, data.targets.id)
    ELSE IF data.state \in {"deliver", "return_shelf"}
    THEN data.targets.id \in Shelves /\ e.agents[a].carrying_shelf = data.targets.id
    ELSE FALSE

\* "if movement_sequence: self.last_actions[agent.id] = movement_sequence[1:]"
RestorePlan(c, a, ms) ==
    IF ms # <<>> THEN [c EXCEPT !.last_actions[a] = Tail(ms)] ELSE c

RestoreReplan(c, e, a, target_pos) ==
    RestorePlan(c, a, calculate_movement(c, e, a, target_pos))

RestoreTarget(c, e, a, data) ==
    IF RestoreValid(data, e, a)
    THEN RestoreReplan([c EXCEPT !.agent_targets[a] =
                            [has |-> TRUE,
                             id |-> IF data.state = "seek_shelf" THEN data.targets.id ELSE 0,
                             position |-> data.targets.position]],
                       e, a, data.targets.position)
    ELSE c

_restore_pre_charging_state(c, e, a) ==
    IF ~c.pre_charging_data[a].has THEN [c EXCEPT !.agent_states[a] = "seek_shelf"]
    ELSE [RestoreTarget([c EXCEPT !.agent_states[a] = c.pre_charging_data[a].state,
                                  !.last_actions[a] = <<>>],
                        e, a, c.pre_charging_data[a])
             EXCEPT !.pre_charging_data[a] = NoData]

\* "if movement_sequence: last_actions = movement_sequence[1:]; action =
\* movement_sequence[0]", the action staying NOOP otherwise.
SetPlan(c, a, ms) ==
    IF ms # <<>>
    THEN [c EXCEPT !.last_actions[a] = Tail(ms), !.action = Head(ms)]
    ELSE [c EXCEPT !.action = NOOP]

PlanTo(c, e, a, goal_pos) == SetPlan(c, a, calculate_movement(c, e, a, goal_pos))

\* Lines 320-325: no shelf this agent could carry.
NoTaskCheck(c, e, a) ==
    IF /\ c.agent_states[a] \notin {"deliver", "return_shelf", "charging"}
       /\ ~_can_carry_any_shelf(c, e, a)
    THEN [c EXCEPT !.agent_states[a] = "no_shelf_to_carry",
                   !.agent_targets[a] = NoTarget,
                   !.last_actions[a] = <<>>]
    ELSE c

\* Lines 336-350: park at the waiting area, or move toward it.
WaitAt(c, e, a, waiting_area) ==
    IF e.agents[a].pos = waiting_area THEN [c EXCEPT !.action = NOOP]
    ELSE PlanTo(IF ~c.agent_targets[a].has
                THEN [c EXCEPT !.agent_targets[a] = PosTarget(waiting_area)]
                ELSE c,
                e, a, waiting_area)

WaitAssigned(r, e, a) == WaitAt(r.c, e, a, r.area)

\* Lines 333-351: NoTask.
WaitStep(c, e, a) == WaitAssigned(_get_waiting_area(c, e, a), e, a)

\* Lines 369-374 and 382-387: head for the selected station, if any.
GoChargeTo(c, a, closest_station) ==
    IF closest_station # NoCell
    THEN [c EXCEPT !.agent_states[a] = "charging",
                   !.agent_targets[a] = PosTarget(closest_station),
                   !.last_actions[a] = <<>>]
    ELSE c

GoCharge(c, e, a) == GoChargeTo(c, a, _get_closest_charging_station(e, a))

\* Lines 364-367: the context is saved only for an agent with a target.
CriticalStore(c, e, a) ==
    IF c.agent_states[a] # "charging" /\ c.agent_targets[a].has
    THEN _store_pre_charging_state(c, e, a)
    ELSE c

\* Lines 362-374: emergency charging.
CriticalCheck(c, e, a) ==
    IF /\ Pct100(e, a) < critical_battery_threshold * battery_capacity
       /\ ~e.agents[a].is_charging
    THEN GoCharge(CriticalStore([c EXCEPT !.metrics.critical_battery_events = @ + 1], e, a), e, a)
    ELSE c

\* Lines 377-387: charging when low.
LowCheck(c, e, a) ==
    IF /\ _needs_charging(e, a)
       /\ ~e.agents[a].is_charging
       /\ c.agent_states[a] # "charging"
    THEN GoCharge(_store_pre_charging_state(
                      [c EXCEPT !.metrics.low_battery_events = @ + 1], e, a), e, a)
    ELSE c

record_collision(m, a) ==
    [m EXCEPT !.collision_count = @ + 1, !.in_recovery = @ \cup {a}]

record_recovery_step(m, a) ==
    IF a \in m.in_recovery THEN [m EXCEPT !.recovery_steps[a] = @ + 1] ELSE m

record_recovery_complete(m, a) ==
    IF a \in m.in_recovery
    THEN [m EXCEPT !.recovery_steps_count = Append(@, m.recovery_steps[a]),
                   !.recovery_steps[a] = 0,
                   !.in_recovery = @ \ {a}]
    ELSE m

\* "self.last_actions.get(agent.id) and self.last_actions[agent.id][0] == FORWARD"
HeadForward(c, a) == c.last_actions[a] # <<>> /\ Head(c.last_actions[a]) = FORWARD

\* Lines 392-397: the stuck counter.
StuckCount(c, e, a) ==
    IF HeadForward(c, a) /\ e.agents[a].pos = c.last_positions[a]
    THEN [c EXCEPT !.stuck_count[a] = @ + 1]
    ELSE [c EXCEPT !.stuck_count[a] = 0]

\* StuckEnter without the test that the agent is not recovering already.
StuckEnter_Reenter(c, e, a) ==
    IF /\ c.stuck_count[a] > 1
       /\ ~e.agents[a].is_charging
       /\ c.agent_states[a] # "no_shelf_to_carry"
    THEN [c EXCEPT !.last_actions[a] = <<>>,
                   !.metrics = record_collision(@, a),
                   !.in_recovery[a] = TRUE]
    ELSE c

\* Lines 399-408: entering recovery.
StuckEnter(c, e, a) ==
    IF /\ c.stuck_count[a] > 1
       /\ ~e.agents[a].is_charging
       /\ c.agent_states[a] # "no_shelf_to_carry"
       /\ ~c.in_recovery[a]
    THEN [c EXCEPT !.last_actions[a] = <<>>,
                   !.metrics = record_collision(@, a),
                   !.in_recovery[a] = TRUE]
    ELSE c

\* Lines 150-178: the maneuver built by _get_recovery_actions for the agent
\* at the given tick.  get_actions never calls the function.
_get_recovery_actions(e, a, tick) ==
    IF e.agents[a].carrying_shelf # 0
    THEN <<LEFT, LEFT, FORWARD, RIGHT, FORWARD>>
    ELSE LET pattern == (tick + a) % 3
         IN  IF pattern = 0 THEN <<LEFT, FORWARD>>
             ELSE IF pattern = 1 THEN <<RIGHT, FORWARD>>
             ELSE <<LEFT, LEFT, FORWARD>>

\* Lines 410-412: a tick spent in recovery.
StuckStep(c, a) ==
    IF c.in_recovery[a] THEN [c EXCEPT !.metrics = record_recovery_step(@, a)] ELSE c

\* Lines 414-419: leaving recovery.
StuckLeave(c, e, a) ==
    IF e.agents[a].pos # c.last_positions[a] /\ HeadForward(c, a) /\ c.in_recovery[a]
    THEN [c EXCEPT !.stuck_count[a] = 0,
                   !.in_recovery[a] = FALSE,
                   !.metrics = record_recovery_complete(@, a)]
    ELSE c

\* Lines 389-421: stuck detection and recovery bookkeeping.
StuckCheck(c, e, a) ==
    [StuckLeave(StuckStep(StuckEnter(StuckCount(c, e, a), e, a), a), e, a)
        EXCEPT !.last_positions[a] = e.agents[a].pos]

\* SelectShelf without the test that skips a carried shelf.
SelectShelf_IgnoreCarried(c, e, a) ==
    LET eligible(s) == /\ ~ReservedByOther(c, s, a)
                       /\ shelf_weight[s] <= max_carry_weight[a]
        cands == SelectSeq(e.request_queue, eligible)
        dist == [s \in Shelves |->
                    Manhattan(_get_aligned_position(e.shelfs[s]), e.agents[a].pos)]
    IN  IF cands = <<>> THEN 0 ELSE MinByKey(Tail(cands), dist, Head(cands))

\* SelectShelf that takes the first eligible shelf whatever its distance.
SelectShelf_FirstEligible(c, e, a) ==
    LET eligible(s) == /\ ~Carried(e, s)
                       /\ ~ReservedByOther(c, s, a)
                       /\ shelf_weight[s] <= max_carry_weight[a]
        cands == SelectSeq(e.request_queue, eligible)
    IN  IF cands = <<>> THEN 0 ELSE Head(cands)

\* Lines 491-519: nearest eligible shelf of the request queue, 0 if none.
SelectShelf(c, e, a) ==
    LET eligible(s) == /\ ~Carried(e, s)
                       /\ ~ReservedByOther(c, s, a)
                       /\ shelf_weight[s] <= max_carry_weight[a]
        cands == SelectSeq(e.request_queue, eligible)
        dist == [s \in Shelves |->
                    Manhattan(_get_aligned_position(e.shelfs[s]), e.agents[a].pos)]
    IN  IF cands = <<>> THEN 0 ELSE MinByKey(Tail(cands), dist, Head(cands))

record_task_start(m, a, s) ==
    [m EXCEPT !.task_start_times = @ \cup {<<a, s>>}]

record_task_completion(m, a, s) ==
    IF <<a, s>> \notin m.task_start_times THEN m
    ELSE [m EXCEPT !.successful_deliveries = @ + 1,
                   !.total_deliveries = @ + 1,
                   !.task_start_times = @ \ {<<a, s>>}]

record_overcapacity_attempt(m) ==
    [m EXCEPT !.overcapacity_attempts = @ + 1,
              !.failed_deliveries = @ + 1,
              !.total_deliveries = @ + 1]

record_battery_failure(m) ==
    [m EXCEPT !.battery_failures = @ + 1,
              !.failed_deliveries = @ + 1,
              !.total_deliveries = @ + 1]

\* Lines 521-543: reserve the selected shelf, target it and plan the way.
SeekReserve(c, e, a, closest_shelf) ==
    PlanTo([c EXCEPT !.reserved_shelves[closest_shelf] = a,
                     !.shelf_reservation_time[closest_shelf] = c.current_step,
                     !.agent_targets[a] =
                         [has |-> TRUE, id |-> closest_shelf,
                          position |-> _get_aligned_position(e.shelfs[closest_shelf])],
                     !.metrics = IF e.agents[a].pos # e.shelfs[closest_shelf]
                                 THEN record_task_start(@, a, closest_shelf)
                                 ELSE @],
           e, a, _get_aligned_position(e.shelfs[closest_shelf]))

\* SeekPickup that toggles the load on the shelf's cell and stays in SeekShelf.
SeekPickup_StaySeeking(c, e, a, closest_shelf) ==
    IF closest_shelf # 0 /\ e.agents[a].pos = e.shelfs[closest_shelf]
    THEN [c EXCEPT !.action = TOGGLE_LOAD, !.last_actions[a] = <<>>]
    ELSE c

\* Lines 548-568: on the shelf's cell, pick it up or give the reservation up.
SeekPickup(c, e, a, closest_shelf) ==
    IF closest_shelf # 0 /\ e.agents[a].pos = e.shelfs[closest_shelf]
    THEN IF shelf_weight[closest_shelf] <= max_carry_weight[a]
         THEN [c EXCEPT !.action = TOGGLE_LOAD,
                        !.agent_states[a] = "deliver",
                        !.last_actions[a] = <<>>,
                        !.reserved_shelves[closest_shelf] = 0,
                        !.shelf_reservation_time[closest_shelf] = -1,
                        !.picked = closest_shelf]
         ELSE [c EXCEPT !.metrics = record_overcapacity_attempt(@),
                        !.reserved_shelves[closest_shelf] = 0,
                        !.shelf_reservation_time[closest_shelf] = -1]
    ELSE c

\* Lines 487-568 once the selection is known; without a replan the name
\* closest_shelf is read unbound.
SeekSelected(c, e, a, replan, closest_shelf) ==
    SeekPickup(IF closest_shelf # 0
               THEN SeekReserve([c EXCEPT !.selected = closest_shelf], e, a, closest_shelf)
               ELSE [c EXCEPT !.action = NOOP, !.error = ~replan],
               e, a, closest_shelf)

SeekReplan(c, e, a, replan) ==
    SeekSelected(c, e, a, replan, IF replan THEN SelectShelf(c, e, a) ELSE 0)

\* Lines 483-568: SeekShelf.
SeekStep(c, e, a) ==
    SeekReplan([c EXCEPT !.assigned_waiting_areas[a] = NoCell], e, a,
               c.last_actions[a] = <<>> \/ e.agents[a].pos # c.agent_targets[a].position)

\* Lines 575-576, 598-599: "self.agent_targets[agent.id]['position'] = ...",
\* which raises on a None entry.
Retarget(c, a, pos) ==
    IF c.agent_targets[a].has
    THEN [c EXCEPT !.agent_targets[a].position = pos]
    ELSE [c EXCEPT !.error = TRUE]

\* DeliverArrive without the test that the agent stands on the goal cell.
DeliverArrive_AnyCell(c, e, a, goal) ==
    [c EXCEPT !.action = TOGGLE_LOAD,
              !.agent_states[a] = "return_shelf",
              !.last_actions[a] = <<>>]

\* Lines 585-588: on the goal cell.
DeliverArrive(c, e, a, goal) ==
    IF e.agents[a].pos = goal
    THEN [c EXCEPT !.action = TOGGLE_LOAD,
                   !.agent_states[a] = "return_shelf",
                   !.last_actions[a] = <<>>]
    ELSE c

DeliverTo(c, e, a, goal) ==
    DeliverArrive(PlanTo(Retarget(c, a, goal), e, a, goal), e, a, goal)

\* Lines 571-588: Deliver, for an agent that carries a shelf.
DeliverStep(c, e, a) == DeliverTo(c, e, a, closest_goal(e, a))

\* ReturnArrive that records no task completion.
ReturnArrive_NoCompletion(c, e, a, original_pos) ==
    IF e.agents[a].pos = original_pos
    THEN [c EXCEPT !.action = TOGGLE_LOAD,
                   !.agent_states[a] = "seek_shelf",
                   !.agent_targets[a] = NoTarget,
                   !.last_actions[a] = <<>>]
    ELSE c

\* Lines 607-613: on the shelf's home cell.
ReturnArrive(c, e, a, original_pos) ==
    IF e.agents[a].pos = original_pos
    THEN [c EXCEPT !.action = TOGGLE_LOAD,
                   !.agent_states[a] = "seek_shelf",
                   !.agent_targets[a] = NoTarget,
                   !.last_actions[a] = <<>>,
                   !.metrics = record_task_completion(@, a, e.agents[a].carrying_shelf)]
    ELSE c

ReturnTo(c, e, a, original_pos) ==
    ReturnArrive(PlanTo(Retarget(c, a, original_pos), e, a, original_pos), e, a, original_pos)

\* Lines 593-617: ReturnShelf.
ReturnStep(c, e, a) ==
    IF e.agents[a].carrying_shelf # 0
    THEN ReturnTo(c, e, a, shelf_memory[e.agents[a].carrying_shelf])
    ELSE [c EXCEPT !.action = NOOP,
                   !.agent_states[a] = "seek_shelf",
                   !.agent_targets[a] = NoTarget,
                   !.last_actions[a] = <<>>]

\* Lines 483-621: the state chain after the queue was found empty.
TaskStep(c, e, a) ==
    IF c.agent_states[a] = "seek_shelf" THEN SeekStep(c, e, a)
    ELSE IF c.agent_states[a] = "deliver" /\ e.agents[a].carrying_shelf # 0 THEN DeliverStep(c, e, a)
    ELSE IF c.agent_states[a] = "return_shelf" THEN ReturnStep(c, e, a)
    ELSE [c EXCEPT !.action = NOOP]

\* Lines 450-457: no other agent is charging on the station below 90%.
StationAvailable(e, a, station_pos) ==
    ~\E o \in Agents \ {a} :
        /\ e.agents[o].pos = station_pos
        /\ e.agents[o].is_charging
        /\ Pct100(e, o) < 90 * battery_capacity

\* QueuePop that takes the head off the queue without appending it.
QueuePop_NoAppend(c, a, q) == [c EXCEPT !.last_actions[a] = Tail(q)]

\* Lines 426-427 and 470-471: pop the head of the queue and append it.
QueuePop(c, a, q) == [c EXCEPT !.action = Head(q), !.last_actions[a] = Tail(q)]

\* Lines 443-479: on the way to the station, or on it and not yet charging.
ChargeMove(c, e, a, station_pos) ==
    IF e.agents[a].pos = station_pos
    THEN IF StationAvailable(e, a, station_pos) THEN [c EXCEPT !.action = NOOP]
         ELSE QueuePop(c, a, IF Len(c.last_actions[a]) < 2
                             THEN <<LEFT, RIGHT>>
                             ELSE c.last_actions[a])
    ELSE PlanTo(c, e, a, station_pos)

\* Lines 433-480: Charging.
ChargingStep(c, e, a) ==
    IF e.agents[a].is_charging
    THEN IF e.agents[a].battery_level >= battery_capacity
         THEN TaskStep(_restore_pre_charging_state(c, e, a), e, a)
         ELSE [c EXCEPT !.action = NOOP]
    ELSE IF ~c.agent_targets[a].has THEN [c EXCEPT !.action = NOOP, !.error = TRUE]
    ELSE ChargeMove(c, e, a, c.agent_targets[a].position)

\* Dispatch that goes to the state chain whatever the queue holds.
Dispatch_NoDrain(c, e, a) ==
    IF c.agent_states[a] = "charging" THEN ChargingStep(c, e, a)
    ELSE TaskStep(c, e, a)

\* Lines 423-628: the queued action if there is one, else the state chain.
Dispatch(c, e, a) ==
    IF c.last_actions[a] # <<>> THEN QueuePop(c, a, c.last_actions[a])
    ELSE IF c.agent_states[a] = "charging" THEN ChargingStep(c, e, a)
    ELSE TaskStep(c, e, a)

\* Lines 352-428: battery checks and stuck detection.
BatteryChecks(c, e, a) ==
    IF e.agents[a].battery_level <= 0
    THEN [c EXCEPT !.metrics = record_battery_failure(@), !.action = NOOP]
    ELSE Dispatch(StuckCheck(LowCheck(CriticalCheck(c, e, a), e, a), e, a), e, a)

\* Lines 328-351: NoTask ends the iteration unless a shelf became available.
AfterNoTask(c, e, a) ==
    IF c.agent_states[a] = "no_shelf_to_carry" /\ ~_can_carry_any_shelf(c, e, a)
    THEN WaitStep(c, e, a)
    ELSE BatteryChecks(IF c.agent_states[a] = "no_shelf_to_carry"
                       THEN [c EXCEPT !.agent_states[a] = "seek_shelf"]
                       ELSE c,
                       e, a)

\* Lines 317-625: one iteration of the per-agent loop of get_actions.
ProcessAgent(c, e, a) == AfterNoTask(NoTaskCheck(c, e, a), e, a)

(***************************************************************************)
(* Baseline controller (baseline_algorithm/main.py), per-agent body of     *)
(* get_actions.  It has no battery logic, no reservations and no waiting   *)
(* areas; a shelf found too heavy is put on the agent's unreachable list.   *)
(* Deliver and ReturnShelf are the same text as in the advanced            *)
(* controller and share its operators.                                      *)
(***************************************************************************)
Baseline_can_carry_any_shelf(c, e, a) ==
    \E i \in 1..Len(e.request_queue) :
        /\ ~Carried(e, e.request_queue[i])
        /\ e.request_queue[i] \notin c.unreachable_shelves[a]

\* Lines 150-154.
BaselineNoTaskCheck(c, e, a) ==
    IF /\ c.agent_states[a] \notin {"deliver", "return_shelf"}
       /\ ~Baseline_can_carry_any_shelf(c, e, a)
    THEN [c EXCEPT !.agent_states[a] = "no_shelf_to_carry",
                   !.agent_targets[a] = NoTarget,
                   !.last_actions[a] = <<>>]
    ELSE c

\* Lines 173-178: entering recovery; the action queue is kept.
BaselineStuckEnter(c, a) ==
    IF /\ c.stuck_count[a] > 1
       /\ c.agent_states[a] # "no_shelf_to_carry"
       /\ ~c.in_recovery[a]
    THEN [c EXCEPT !.metrics = record_collision(@, a),
                   !.in_recovery[a] = TRUE]
    ELSE c

\* Lines 163-192.
BaselineStuckCheck(c, e, a) ==
    [StuckLeave(StuckStep(BaselineStuckEnter(StuckCount(c, e, a), a), a), e, a)
        EXCEPT !.last_positions[a] = e.agents[a].pos]

\* Lines 210-223: nearest requested shelf that is not carried and not on the
\* agent's unreachable list, whatever its weight; 0 if none.
BaselineSelectShelf(c, e, a) ==
    LET eligible(s) == /\ ~Carried(e, s)
                       /\ s \notin c.unreachable_shelves[a]
        cands == SelectSeq(e.request_queue, eligible)
        dist == [s \in Shelves |->
                    Manhattan(_get_aligned_position(e.shelfs[s]), e.agents[a].pos)]
    IN  IF cands = <<>> THEN 0 ELSE MinByKey(Tail(cands), dist, Head(cands))

\* Lines 225-239: target the selected shelf and plan the way.
BaselineSeekTarget(c, e, a, closest_shelf) ==
    PlanTo([c EXCEPT !.agent_targets[a] =
                         [has |-> TRUE, id |-> closest_shelf,
                          position |-> _get_aligned_position(e.shelfs[closest_shelf])],
                     !.metrics = IF e.agents[a].pos # e.shelfs[closest_shelf]
                                 THEN record_task_start(@, a, closest_shelf)
                                 ELSE @],
           e, a, _get_aligned_position(e.shelfs[closest_shelf]))

\* BaselineSeekPickup without the weight test.
BaselineSeekPickup_AnyWeight(c, e, a, closest_shelf) ==
    IF closest_shelf # 0 /\ e.agents[a].pos = e.shelfs[closest_shelf]
    THEN [c EXCEPT !.action = TOGGLE_LOAD,
                   !.agent_states[a] = "deliver",
                   !.last_actions[a] = <<>>,
                   !.unreachable_shelves[a] = @ \ {closest_shelf},
                   !.picked = closest_shelf]
    ELSE c

\* Lines 242-258: on the shelf's cell, pick it up or list it as unreachable.
BaselineSeekPickup(c, e, a, closest_shelf) ==
    IF closest_shelf # 0 /\ e.agents[a].pos = e.shelfs[closest_shelf]
    THEN IF shelf_weight[closest_shelf] <= max_carry_weight[a]
         THEN [c EXCEPT !.action = TOGGLE_LOAD,
                        !.agent_states[a] = "deliver",
                        !.last_actions[a] = <<>>,
                        !.unreachable_shelves[a] = @ \ {closest_shelf},
                        !.picked = closest_shelf]
         ELSE [c EXCEPT !.unreachable_shelves[a] = @ \cup {closest_shelf},
                        !.agent_targets[a] = NoTarget,
                        !.last_actions[a] = <<>>,
                        !.action = NOOP,
                        !.metrics = record_overcapacity_attempt(@)]
    ELSE c

BaselineSeekSelected(c, e, a, replan, closest_shelf) ==
    BaselineSeekPickup(IF closest_shelf # 0
                       THEN BaselineSeekTarget([c EXCEPT !.selected = closest_shelf],
                                               e, a, closest_shelf)
                       ELSE [c EXCEPT !.action = NOOP, !.error = ~replan],
                       e, a, closest_shelf)

\* Lines 205-258: SeekShelf.
BaselineSeekStep(c, e, a) ==
    BaselineSeekSelected(c, e, a,
        c.last_actions[a] = <<>> \/ e.agents[a].pos # c.agent_targets[a].position,
        IF c.last_actions[a] = <<>> \/ e.agents[a].pos # c.agent_targets[a].position
        THEN BaselineSelectShelf(c, e, a) ELSE 0)

\* Lines 205-303: the state chain.
BaselineTaskStep(c, e, a) ==
    IF c.agent_states[a] = "seek_shelf" THEN BaselineSeekStep(c, e, a)
    ELSE IF c.agent_states[a] = "deliver" /\ e.agents[a].carrying_shelf # 0 THEN DeliverStep(c, e, a)
    ELSE IF c.agent_states[a] = "return_shelf" THEN ReturnStep(c, e, a)
    ELSE [c EXCEPT !.action = NOOP]

\* Lines 194-303: the queued action if there is one, else the state chain.
BaselineDispatch(c, e, a) ==
    IF c.last_actions[a] # <<>> THEN QueuePop(c, a, c.last_actions[a])
    ELSE BaselineTaskStep(c, e, a)

\* Lines 156-303.
BaselineAfterNoTask(c, e, a) ==
    IF c.agent_states[a] = "no_shelf_to_carry" /\ ~Baseline_can_carry_any_shelf(c, e, a)
    THEN [c EXCEPT !.action = NOOP]
    ELSE BaselineDispatch(
             BaselineStuckCheck(IF c.agent_states[a] = "no_shelf_to_carry"
                                THEN [c EXCEPT !.agent_states[a] = "seek_shelf"]
                                ELSE c,
                                e, a),
             e, a)

\* Lines 146-305: one iteration of the per-agent loop of get_actions.
BaselineProcessAgent(c, e, a) == BaselineAfterNoTask(BaselineNoTaskCheck(c, e, a), e, a)

(***************************************************************************)
(* World step (rware.warehouse.Warehouse.step), as the controller relies   *)
(* on it: actions are applied in agent order; a forward move fails on the  *)
(* grid border, an obstacle, another agent, or, for a loaded agent, a      *)
(* standing shelf; TOGGLE_LOAD picks up the free shelf under an unloaded   *)
(* agent and puts the carried shelf down anywhere but on a goal; an agent  *)
(* idling on a station charges, every other agent drains (battery_drain   *)
(* units per tick); a requested                                            *)
(* shelf carried onto a goal is replaced in the request queue.  The world  *)
(* may also refuse an action (refused), within the fault budget.           *)
(***************************************************************************)
ApplyAction(e, a, act) ==
    LET ag == e.agents[a]
        tgt == Ahead(ag.pos, ag.dir)
        free == /\ tgt \in Cells
                /\ tgt \notin e.obstacles
                /\ \A o \in Agents \ {a} : e.agents[o].pos # tgt
                /\ (ag.carrying_shelf # 0 =>
                        \A s \in Shelves : e.shelfs[s] = tgt => Carried(e, s))
        here == {s \in Shelves : e.shelfs[s] = ag.pos /\ ~Carried(e, s)}
    IN  IF ag.battery_level <= 0 THEN e
        ELSE IF act = FORWARD /\ free
        THEN [e EXCEPT !.agents[a].pos = tgt,
                       !.shelfs = IF ag.carrying_shelf # 0
                                  THEN [@ EXCEPT ![ag.carrying_shelf] = tgt]
                                  ELSE @]
        ELSE IF act \in {LEFT, RIGHT}
        THEN [e EXCEPT !.agents[a].dir = TurnDir(ag.dir, act)]
        ELSE IF act = TOGGLE_LOAD /\ ag.carrying_shelf = 0 /\ here # {}
        THEN [e EXCEPT !.agents[a].carrying_shelf = CHOOSE s \in here : TRUE]
        ELSE IF act = TOGGLE_LOAD /\ ag.carrying_shelf # 0 /\ ag.pos \notin SeqToSet(goal_locations)
        THEN [e EXCEPT !.agents[a].carrying_shelf = 0]
        ELSE e

RECURSIVE ApplyAll(_, _, _, _)
ApplyAll(e, acts, i, refused) ==
    IF i > Len(AgentOrder) THEN e
    ELSE LET a == AgentOrder[i]
             e1 == IF a \in refused THEN e ELSE ApplyAction(e, a, acts[i])
         IN  ApplyAll(e1, acts, i + 1, refused)

UpdateBattery(e, acts) ==
    [e EXCEPT !.agents =
        [a \in Agents |->
            LET ag == e.agents[a]
                charging == ag.pos \in SeqToSet(charging_stations) /\ acts[a] = NOOP
                level == IF charging
                         THEN IF ag.battery_level + charge_rate > battery_capacity
                              THEN battery_capacity
                              ELSE ag.battery_level + charge_rate
                         ELSE IF ag.battery_level > e.battery_drain
                              THEN ag.battery_level - e.battery_drain
                              ELSE 0
            IN  [ag EXCEPT !.is_charging = charging, !.battery_level = level]]]

RECURSIVE UpdateRequests(_, _)
UpdateRequests(e, i) ==
    IF i > Len(AgentOrder) THEN e
    ELSE LET a == AgentOrder[i]
             s == e.agents[a].carrying_shelf
             fresh == Shelves \ SeqToSet(e.request_queue)
             k == CHOOSE j \in 1..Len(e.request_queue) : e.request_queue[j] = s
         IN  IF /\ s # 0
                /\ s \in SeqToSet(e.request_queue)
                /\ e.agents[a].pos \in SeqToSet(goal_locations)
                /\ fresh # {}
             THEN UpdateRequests([e EXCEPT !.request_queue[k] = CHOOSE n \in fresh : TRUE], i + 1)
             ELSE UpdateRequests(e, i + 1)

WorldStep(e, acts, refused) ==
    UpdateRequests(UpdateBattery(ApplyAll(e, acts, 1, refused), acts), 1)

ctlvars == <<agent_states, agent_targets, last_positions, stuck_count, last_actions,
             reserved_shelves, shelf_reservation_time, pre_charging_data,
             assigned_waiting_areas, in_recovery, metrics>>

vars == <<plan, env, ctlvars, current_step, step, idx, actions, picked, selected,
          purged, failed_forward, crashed, budget, controller, unreachable_shelves,
          no_movement_steps, all_stuck_counter>>

IdlePlan == [pc |-> "off", pos |-> <<0, 0>>, dir |-> UP, goal |-> <<0, 0>>,
             blocked |-> {}, astar |-> <<>>, bfs |-> <<>>]

InitBattery == {1, 2, 4, 5, 20}
InitQueue == {<<1>>, <<2>>, <<1, 2>>, <<2, 1>>}

\* WarehouseController.__init__ and initialize_and_verify, on a fresh world.
CtlInit ==
    /\ agent_states = [a \in Agents |-> "seek_shelf"]
    /\ agent_targets = [a \in Agents |-> NoTarget]
    /\ last_positions = [a \in Agents |-> env.agents[a].pos]
    /\ stuck_count = [a \in Agents |-> 0]
    /\ last_actions = [a \in Agents |-> <<>>]
    /\ reserved_shelves = [s \in Shelves |-> 0]
    /\ shelf_reservation_time = [s \in Shelves |-> -1]
    /\ current_step = 0
    /\ pre_charging_data = [a \in Agents |-> NoData]
    /\ assigned_waiting_areas = [a \in Agents |-> NoCell]
    /\ in_recovery = [a \in Agents |-> FALSE]
    /\ metrics = [task_start_times |-> {}, successful_deliveries |-> 0,
                  failed_deliveries |-> 0, total_deliveries |-> 0,
                  collision_count |-> 0, overcapacity_attempts |-> 0,
                  battery_failures |-> 0, low_battery_events |-> 0,
                  critical_battery_events |-> 0, in_recovery |-> {},
                  recovery_steps |-> [a \in Agents |-> 0],
                  recovery_steps_count |-> <<>>, total_steps |-> 0]
    /\ step = 0
    /\ idx = 0
    /\ actions = <<>>
    /\ picked = [a \in Agents |-> 0]
    /\ selected = [a \in Agents |-> 0]
    /\ purged = {}
    /\ failed_forward = [a \in Agents |-> 0]
    /\ crashed = FALSE
    /\ unreachable_shelves = [a \in Agents |-> {}]
    /\ no_movement_steps = 0
    /\ all_stuck_counter = 0

WorldInit ==
    /\ plan = IdlePlan
    /\ \E b \in [Fleet -> InitBattery], q \in InitQueue :
        env = [agents |-> [a \in Fleet |->
                              [pos |-> InitPos[a], dir |-> InitDir[a],
                               battery_level |-> b[a], is_charging |-> FALSE,
                               carrying_shelf |-> 0]],
               shelfs |-> [s \in Shelves |-> shelf_memory[s]],
               request_queue |-> q,
               obstacles |-> {}, battery_drain |-> 1]
    /\ CtlInit
    /\ budget = [ticks |-> MaxTicks, faults |-> MaxFaults]

\* A run of astar_algorithm/main.py.
Init ==
    /\ WorldInit
    /\ controller = "advanced"

Ctl ==
    [agent_states |-> agent_states, agent_targets |-> agent_targets,
     last_positions |-> last_positions, stuck_count |-> stuck_count,
     last_actions |-> last_actions, reserved_shelves |-> reserved_shelves,
     shelf_reservation_time |-> shelf_reservation_time, current_step |-> current_step,
     pre_charging_data |-> pre_charging_data,
     assigned_waiting_areas |-> assigned_waiting_areas, in_recovery |-> in_recovery,
     metrics |-> metrics, action |-> -1, picked |-> 0, selected |-> 0, error |-> FALSE,
     controller |-> controller, unreachable_shelves |-> unreachable_shelves]

\* The purge test with > in place of >=.
ExpiredStrict(times, now) ==
    {s \in Shelves : times[s] # -1 /\ (now - times[s]) > ReservationTTL}

\* Lines 308-309: the ledger entries the purge removes.
ExpiredReservations(times, now) ==
    {s \in Shelves : times[s] # -1 /\ (now - times[s]) >= ReservationTTL}

\* Lines 307-315 of get_actions, entered from the run loop (lines 748-756).
GetActionsBegin ==
    /\ controller = "advanced"
    /\ idx = 0
    /\ ~crashed
    /\ budget.ticks > 0
    /\ metrics.successful_deliveries < max_deliveries
    /\ LET expired == ExpiredReservations(shelf_reservation_time, current_step)
       IN  /\ reserved_shelves' = [s \in Shelves |-> IF s \in expired THEN 0 ELSE reserved_shelves[s]]
           /\ shelf_reservation_time' =
                  [s \in Shelves |-> IF s \in expired THEN -1 ELSE shelf_reservation_time[s]]
           /\ purged' = expired
    /\ metrics' = [metrics EXCEPT !.total_steps = @ + 1]
    /\ actions' = <<>>
    /\ picked' = [a \in Agents |-> 0]
    /\ selected' = [a \in Agents |-> 0]
    /\ idx' = 1
    /\ budget' = [budget EXCEPT !.ticks = @ - 1]
    /\ UNCHANGED <<plan, env, agent_states, agent_targets, last_positions, stuck_count,
                   last_actions, current_step, pre_charging_data, assigned_waiting_areas,
                   in_recovery, step, failed_forward, crashed, controller,
                   unreachable_shelves, no_movement_steps, all_stuck_counter>>

\* The dictionaries as the processing of agent a leaves them in r.
CommitAgent(a, r) ==
    /\ agent_states' = r.agent_states
    /\ agent_targets' = r.agent_targets
    /\ last_positions' = r.last_positions
    /\ stuck_count' = r.stuck_count
    /\ last_actions' = r.last_actions
    /\ reserved_shelves' = r.reserved_shelves
    /\ shelf_reservation_time' = r.shelf_reservation_time
    /\ pre_charging_data' = r.pre_charging_data
    /\ assigned_waiting_areas' = r.assigned_waiting_areas
    /\ in_recovery' = r.in_recovery
    /\ metrics' = r.metrics
    /\ unreachable_shelves' = r.unreachable_shelves
    /\ actions' = Append(actions, r.action)
    /\ picked' = [picked EXCEPT ![a] = r.picked]
    /\ selected' = [selected EXCEPT ![a] = r.selected]
    /\ crashed' = r.error
    /\ idx' = IF r.error THEN 0 ELSE idx + 1

\* Lines 317-625 of get_actions for the agent at position idx.
AgentStep ==
    /\ controller = "advanced"
    /\ idx \in 1..Len(AgentOrder)
    /\ CommitAgent(AgentOrder[idx], ProcessAgent(Ctl, env, AgentOrder[idx]))
    /\ UNCHANGED <<plan, env, current_step, step, purged, failed_forward, budget,
                   controller, no_movement_steps, all_stuck_counter>>

\* Lines 757-764 of the run loop: the world applies the vector, then the
\* controller's tick counter is set from the loop's step counter.
EnvStep ==
    /\ controller = "advanced"
    /\ idx = Len(AgentOrder) + 1
    /\ \E refused \in SUBSET {a \in Agents : actions[a] # NOOP} :
        /\ Cardinality(refused) <= budget.faults
        /\ env' = WorldStep(env, actions, refused)
        /\ budget' = [budget EXCEPT !.faults = @ - Cardinality(refused)]
    /\ failed_forward' =
          [a \in Agents |->
              IF actions[a] = FORWARD /\ env'.agents[a].pos = env.agents[a].pos
              THEN IF failed_forward[a] >= 2 THEN 2 ELSE failed_forward[a] + 1
              ELSE 0]
    /\ current_step' = step
    /\ step' = step + 1
    /\ idx' = 0
    /\ UNCHANGED <<plan, ctlvars, actions, picked, selected, purged, crashed, controller,
                   unreachable_shelves, no_movement_steps, all_stuck_counter>>

Next == GetActionsBegin \/ AgentStep \/ EnvStep

Spec == Init /\ [][Next]_vars

\* Warehouse.reset places the agents on free cells; besides the placement of
\* InitPos, a run may start with both agents on the top row.
StartPlacements == {InitPos, << <<1, 0>>, <<2, 0>> >>, << <<0, 0>>, <<1, 0>> >>}
PlacedBattery == {3, 20}

\* A run of astar_algorithm/main.py from one of the start placements, in a
\* world that refuses no action.
PlacedInit ==
    /\ plan = IdlePlan
    /\ \E p \in StartPlacements, b \in [Fleet -> PlacedBattery], q \in InitQueue :
        env = [agents |-> [a \in Fleet |->
                              [pos |-> p[a], dir |-> InitDir[a],
                               battery_level |-> b[a], is_charging |-> FALSE,
                               carrying_shelf |-> 0]],
               shelfs |-> [s \in Shelves |-> shelf_memory[s]],
               request_queue |-> q,
               obstacles |-> {}, battery_drain |-> 1]
    /\ CtlInit
    /\ budget = [ticks |-> MaxTicks, faults |-> 0]
    /\ controller = "advanced"

PlacedSpec == PlacedInit /\ [][Next]_vars

\* A run of astar_algorithm/main.py as run_simulation makes it: one agent
\* ("rware-easy-1ag-v2") with a full battery, placed anywhere, one requested
\* shelf, in a world that refuses no action.  The battery of the world either
\* drains by one unit per tick or is large against the length of the run
\* (battery_drain 0).
SoloQueue == {<<1>>, <<2>>}

SoloInit ==
    /\ plan = IdlePlan
    /\ \E p \in Cells, d \in Dirs, q \in SoloQueue, drain \in {0, 1} :
        env = [agents |-> [a \in {1} |->
                              [pos |-> p, dir |-> d,
                               battery_level |-> battery_capacity, is_charging |-> FALSE,
                               carrying_shelf |-> 0]],
               shelfs |-> [s \in Shelves |-> shelf_memory[s]],
               request_queue |-> q,
               obstacles |-> {}, battery_drain |-> drain]
    /\ CtlInit
    /\ budget = [ticks |-> SoloTicks, faults |-> 0]
    /\ controller = "advanced"

\* The loop of run_simulation (lines 744-764) is sequential: as long as the
\* run is not over, the next call of get_actions or step is made.
LoopStep ==
    /\ idx # 0 \/ budget.ticks > 0
    /\ idx' \in (0..(Len(AgentOrder) + 1)) \ {idx}

SoloSpec == SoloInit /\ [][Next]_vars /\ WF_idx(LoopStep)

(***************************************************************************)
(* Run loop of baseline_algorithm/main.py.                                  *)
(***************************************************************************)
baseline_max_deliveries == 50
no_movement_limit == 100

_all_agents_dead ==
    \A a \in Agents : env.agents[a].battery_level <= 0 /\ ~env.agents[a].is_charging

_all_agents_stuck == \A a \in Agents : stuck_count[a] > 1

\* Lines 127-131 of get_actions.
any_movement ==
    \E a \in Agents :
        /\ env.agents[a].battery_level > 0
        /\ ~env.agents[a].is_charging
        /\ agent_states[a] # "no_shelf_to_carry"
        /\ env.agents[a].pos # last_positions[a]

\* MetricsTracker.record_battery_levels.
record_battery_levels(m, e) ==
    [m EXCEPT !.battery_failures =
        @ + Cardinality({a \in Agents : e.agents[a].battery_level <= 0})]

\* Lines 127-144 of get_actions, entered from the run loop (lines 326-339).
BaselineGetActionsBegin ==
    /\ controller = "baseline"
    /\ idx = 0
    /\ ~crashed
    /\ budget.ticks > 0
    /\ metrics.successful_deliveries < baseline_max_deliveries
    /\ ~_all_agents_dead
    /\ no_movement_steps <= no_movement_limit
    /\ no_movement_steps' = IF any_movement THEN 0 ELSE no_movement_steps + 1
    /\ all_stuck_counter' = IF _all_agents_stuck THEN all_stuck_counter + 1 ELSE 0
    /\ metrics' = [metrics EXCEPT !.total_steps = @ + 1]
    /\ actions' = <<>>
    /\ picked' = [a \in Agents |-> 0]
    /\ selected' = [a \in Agents |-> 0]
    /\ purged' = {}
    /\ idx' = 1
    /\ budget' = [budget EXCEPT !.ticks = @ - 1]
    /\ UNCHANGED <<plan, env, agent_states, agent_targets, last_positions, stuck_count,
                   last_actions, reserved_shelves, shelf_reservation_time, current_step,
                   pre_charging_data, assigned_waiting_areas, in_recovery, step,
                   failed_forward, crashed, controller, unreachable_shelves>>

\* Lines 146-305 of get_actions for the agent at position idx.
BaselineAgentStep ==
    /\ controller = "baseline"
    /\ idx \in 1..Len(AgentOrder)
    /\ CommitAgent(AgentOrder[idx], BaselineProcessAgent(Ctl, env, AgentOrder[idx]))
    /\ UNCHANGED <<plan, env, current_step, step, purged, failed_forward, budget,
                   controller, no_movement_steps, all_stuck_counter>>

\* Lines 340-346 of the run loop.
BaselineEnvStep ==
    /\ controller = "baseline"
    /\ idx = Len(AgentOrder) + 1
    /\ \E refused \in SUBSET {a \in Agents : actions[a] # NOOP} :
        /\ Cardinality(refused) <= budget.faults
        /\ env' = WorldStep(env, actions, refused)
        /\ budget' = [budget EXCEPT !.faults = @ - Cardinality(refused)]
    /\ metrics' = record_battery_levels(metrics, env')
    /\ failed_forward' =
          [a \in Agents |->
              IF actions[a] = FORWARD /\ env'.agents[a].pos = env.agents[a].pos
              THEN IF failed_forward[a] >= 2 THEN 2 ELSE failed_forward[a] + 1
              ELSE 0]
    /\ current_step' = step
    /\ step' = step + 1
    /\ idx' = 0
    /\ UNCHANGED <<plan, agent_states, agent_targets, last_positions, stuck_count,
                   last_actions, reserved_shelves, shelf_reservation_time,
                   pre_charging_data, assigned_waiting_areas, in_recovery,
                   actions, picked, selected, purged, crashed, controller,
                   unreachable_shelves, no_movement_steps, all_stuck_counter>>

BaselineNext == BaselineGetActionsBegin \/ BaselineAgentStep \/ BaselineEnvStep

\* A run of either controller on the same worlds.
ControllersInit ==
    /\ WorldInit
    /\ controller \in {"advanced", "baseline"}

ControllersNext ==
    \/ GetActionsBegin
    \/ AgentStep
    \/ EnvStep
    \/ BaselineGetActionsBegin
    \/ BaselineAgentStep
    \/ BaselineEnvStep

ControllersSpec == ControllersInit /\ [][ControllersNext]_vars

(***************************************************************************)
(* Planner specification: the inputs of calculate_movement are drawn from  *)
(* bounded sets, then each strategy is applied to them.  The blocked set   *)
(* may contain the agent's own cell: the caller blocks every shelf home    *)
(* cell for an agent in charging state that carries nothing, also the one  *)
(* it stands on.                                                           *)
(***************************************************************************)
OutOfGrid == {<<-1, 0>>, <<Cols, 0>>, <<0, Rows>>, <<0, -1>>}

PlanInit ==
    /\ \E pos \in Cells, dir \in Dirs, goal \in Cells \cup OutOfGrid, blocked \in SUBSET Cells :
        /\ Cardinality(blocked) <= MaxBlocked
        /\ plan = [pc |-> "input", pos |-> pos, dir |-> dir, goal |-> goal,
                   blocked |-> blocked, astar |-> <<>>, bfs |-> <<>>]
    /\ env = [agents |-> [a \in Fleet |->
                             [pos |-> InitPos[a], dir |-> InitDir[a],
                              battery_level |-> battery_capacity, is_charging |-> FALSE,
                              carrying_shelf |-> 0]],
              shelfs |-> [s \in Shelves |-> shelf_memory[s]],
              request_queue |-> <<1>>,
              obstacles |-> {}, battery_drain |-> 1]
    /\ CtlInit
    /\ controller = "advanced"
    /\ budget = [ticks |-> 0, faults |-> 0]

PlanAStar ==
    /\ plan.pc = "input"
    /\ plan' = [plan EXCEPT !.pc = "astar",
                            !.astar = AStar_calculate_movement(plan.pos, plan.dir, plan.goal, plan.blocked)]
    /\ UNCHANGED <<env, ctlvars, current_step, step, idx, actions, picked, selected,
                   purged, failed_forward, crashed, budget, controller, unreachable_shelves,
                   no_movement_steps, all_stuck_counter>>

PlanBFS ==
    /\ plan.pc = "astar"
    /\ plan' = [plan EXCEPT !.pc = "done",
                            !.bfs = BFS_calculate_movement(plan.pos, plan.dir, plan.goal, plan.blocked)]
    /\ UNCHANGED <<env, ctlvars, current_step, step, idx, actions, picked, selected,
                   purged, failed_forward, crashed, budget, controller, unreachable_shelves,
                   no_movement_steps, all_stuck_counter>>

PlanNext == PlanAStar \/ PlanBFS

PlanSpec == PlanInit /\ [][PlanNext]_vars

(***************************************************************************)
(* Blocked-set specification: the world the helper reads (agent cells, one *)
(* obstacle at most, the shelf agent 1 carries) is drawn from bounded      *)
(* sets, then get_blocked_positions is applied for an agent in a state.    *)
(***************************************************************************)
ControllerStates == {"seek_shelf", "deliver", "return_shelf", "charging", "no_shelf_to_carry"}

BlockedInit ==
    /\ plan = IdlePlan
    /\ \E p \in [Fleet -> Cells], obs \in {{}} \cup {{cell} : cell \in Cells},
          carried \in {0} \cup Shelves :
        /\ \A a, o \in Fleet : a # o => p[a] # p[o]
        /\ \A a \in Fleet : p[a] \notin obs
        /\ \A s \in Shelves : shelf_memory[s] \notin obs
        /\ carried # 0 => \A s \in Shelves \ {carried} : shelf_memory[s] # p[1]
        /\ env = [agents |-> [a \in Fleet |->
                                 [pos |-> p[a], dir |-> InitDir[a],
                                  battery_level |-> battery_capacity,
                                  is_charging |-> FALSE,
                                  carrying_shelf |-> IF a = 1 THEN carried ELSE 0]],
                  shelfs |-> [s \in Shelves |->
                                 IF s = carried THEN p[1] ELSE shelf_memory[s]],
                  request_queue |-> <<1>>,
                  obstacles |-> obs, battery_drain |-> 1]
    /\ CtlInit
    /\ controller = "advanced"
    /\ budget = [ticks |-> 0, faults |-> 0]

\* planner call sites: blocked = self.shelf_helper.get_blocked_positions(agent)
BlockedCompute ==
    /\ plan.pc = "off"
    /\ \E a \in Agents, st \in ControllerStates :
        /\ agent_states' = [agent_states EXCEPT ![a] = st]
        /\ idx' = a
        /\ plan' = [plan EXCEPT !.pc = "blocked",
                                !.blocked = get_blocked_positions(agent_states', env, a)]
    /\ UNCHANGED <<env, agent_targets, last_positions, stuck_count, last_actions,
                   reserved_shelves, shelf_reservation_time, pre_charging_data,
                   assigned_waiting_areas, in_recovery, metrics, current_step, step,
                   actions, picked, selected, purged, failed_forward, crashed, budget,
                   controller, unreachable_shelves, no_movement_steps, all_stuck_counter>>

BlockedNext == BlockedCompute

BlockedSpec == BlockedInit /\ [][BlockedNext]_vars

(***************************************************************************)
(* Planner claims, checked under PlanSpec.                                  *)
(***************************************************************************)
Planned == plan.pc = "done"

\* Offset of the goal from the start along the facing direction, 0 when the
\* goal is not straight ahead.
StraightAhead ==
    LET dx == plan.goal[1] - plan.pos[1]
        dy == plan.goal[2] - plan.pos[2]
    IN  CASE plan.dir = UP        -> IF dx = 0 /\ dy < 0 THEN -dy ELSE 0
          [] plan.dir = DOWN      -> IF dx = 0 /\ dy > 0 THEN dy ELSE 0
          [] plan.dir = DIR_LEFT  -> IF dy = 0 /\ dx < 0 THEN -dx ELSE 0
          [] plan.dir = DIR_RIGHT -> IF dy = 0 /\ dx > 0 THEN dx ELSE 0

\* Cells from the agent's own cell up to and including the goal.
RECURSIVE CellsAhead(_, _, _)
CellsAhead(pos, dir, d) ==
    IF d = 0 THEN {pos} ELSE {pos} \cup CellsAhead(Ahead(pos, dir), dir, d - 1)

\* C1: every non-empty sequence the A* strategy returns, replayed from the
\* start cell and facing, stays on unblocked in-bounds cells and ends on the
\* goal cell.
C1_AStarRoundTrip ==
    (plan.pc \in {"astar", "done"} /\ plan.astar # <<>>) =>
        /\ ReplaySafe(plan.pos, plan.dir, plan.astar, plan.blocked)
        /\ ReplayEnd(plan.pos, plan.dir, plan.astar).pos = plan.goal

\* C2: every non-empty sequence the BFS strategy returns, replayed from the
\* start cell and facing, stays on unblocked in-bounds cells and ends on the
\* goal cell.
C2_BFSRoundTrip ==
    (Planned /\ plan.bfs # <<>>) =>
        /\ ReplaySafe(plan.pos, plan.dir, plan.bfs, plan.blocked)
        /\ ReplayEnd(plan.pos, plan.dir, plan.bfs).pos = plan.goal

\* A BFS plan around blocked cells: turns and forwards, five actions or more.
C2_Witness ==
    /\ Planned
    /\ plan.blocked # {}
    /\ Len(plan.bfs) >= 5
    /\ ReplayEnd(plan.pos, plan.dir, plan.bfs).pos = plan.goal

\* C3: for a goal other than the start cell, the A* strategy returns the
\* empty sequence exactly when the BFS strategy does.
C3_SameNoPath ==
    (Planned /\ plan.goal # plan.pos) => ((plan.astar = <<>>) <=> (plan.bfs = <<>>))

\* C4: a goal outside the grid or in the blocked set makes both strategies
\* return the empty sequence; the blocked set of the controller's planner
\* call holds the cell of every other agent, so a goal on another agent's
\* cell gives the empty sequence too.
C4_BadGoalEmpty ==
    /\ (Planned /\ (plan.goal \notin Cells \/ plan.goal \in plan.blocked)) =>
           (plan.astar = <<>> /\ plan.bfs = <<>>)
    /\ \A a \in Agents : \A o \in Agents \ {a} :
           /\ env.agents[o].pos \in get_blocked_positions(agent_states, env, a)
           /\ \A k \in {"advanced", "baseline"} :
                  calculate_movement([agent_states |-> agent_states, controller |-> k],
                                     env, a, env.agents[o].pos) = <<>>

\* Both strategies answered a request whose goal is the blocked cell right
\* in front of the agent.
C4_Witness ==
    /\ Planned
    /\ plan.goal = Ahead(plan.pos, plan.dir)
    /\ plan.goal \in plan.blocked
    /\ plan.pos \notin plan.blocked
    /\ plan.astar = <<>>
    /\ plan.bfs = <<>>

Processing(a) ==
    /\ idx \in 1..Len(AgentOrder)
    /\ AgentOrder[idx] = a
    /\ idx' # idx

Critical(a) ==
    /\ env.agents[a].battery_level > 0
    /\ Pct100(env, a) < critical_battery_threshold * battery_capacity

\* C6: at every tick each shelf is carried by at most one agent, and while
\* get_actions runs no pickup TOGGLE_LOAD of SeekShelf is for a shelf that
\* some agent carries.
C6_SingleCarrier ==
    /\ \A s \in Shelves :
           Cardinality({a \in Agents : env.agents[a].carrying_shelf = s}) <= 1
    /\ idx # 0 => \A a \in Agents : picked[a] # 0 => ~Carried(env, picked[a])

\* An agent still carrying a requested shelf (its put-down was refused) is
\* in SeekShelf and has just reserved the other shelf instead.
C6_Witness ==
    \E a \in Agents : \E s \in SeqToSet(env.request_queue) :
        /\ idx = a + 1
        /\ agent_states[a] = "seek_shelf"
        /\ env.agents[a].carrying_shelf = s
        /\ agent_targets[a].has
        /\ agent_targets[a].id # s
        /\ reserved_shelves[agent_targets[a].id] = a
        /\ shelf_reservation_time[agent_targets[a].id] = current_step

\* C7: the ledger has one holder and one creation tick per reserved shelf,
\* and no step replaces the holder of a shelf by a different agent while the
\* reservation is younger than the TTL.
C7_ReservationExclusive ==
    [][\A s \in Shelves :
          /\ (reserved_shelves'[s] = 0) <=> (shelf_reservation_time'[s] = -1)
          /\ (/\ reserved_shelves[s] # 0
              /\ reserved_shelves'[s] # 0
              /\ reserved_shelves'[s] # reserved_shelves[s])
                 => (current_step - shelf_reservation_time[s]) >= ReservationTTL]_vars

\* Agent 1 has just written a reservation for shelf 2 while shelf 1, which
\* it could carry and which is requested and not carried, is held by agent 2
\* since an earlier tick.
C7_Witness ==
    /\ idx = 2
    /\ reserved_shelves[1] = 2
    /\ shelf_reservation_time[1] < current_step
    /\ reserved_shelves[2] = 1
    /\ shelf_reservation_time[2] = current_step
    /\ 1 \in SeqToSet(env.request_queue)
    /\ ~Carried(env, 1)

\* C8: once the purge at the head of get_actions has run, every ledger entry
\* is younger than the TTL for the whole allocation pass.
C8_FreshAfterPurge ==
    idx # 0 => \A s \in Shelves :
        shelf_reservation_time[s] # -1 =>
            (current_step - shelf_reservation_time[s]) < ReservationTTL

\* The purge has removed a reservation in this pass and another agent has
\* reserved the same shelf in the same pass.
C8_Witness ==
    /\ idx # 0
    /\ \E s \in purged :
           /\ reserved_shelves[s] # 0
           /\ shelf_reservation_time[s] = current_step
           /\ current_step >= ReservationTTL

\* C9: an agent whose FORWARD failed once (the tick before was not a failed
\* forward) does not enter recovery; an agent whose FORWARD failed on two
\* consecutive ticks and that is not recovering, not charging and not in
\* NoTask enters recovery when it is processed next.
C9_StuckDetection ==
    [][\A a \in Agents : Processing(a) =>
          /\ (failed_forward[a] = 1 /\ ~in_recovery[a]) => ~in_recovery'[a]
          /\ (/\ failed_forward[a] = 2
              /\ ~in_recovery[a]
              /\ env.agents[a].battery_level > 0
              /\ ~env.agents[a].is_charging
              /\ agent_states[a] \notin {"charging", "no_shelf_to_carry"}
              /\ agent_states'[a] \notin {"charging", "no_shelf_to_carry"})
                 => in_recovery'[a]]_vars

\* C10: an agent with critical battery that is not in Charging, not charging
\* and not on a station cell is, after its processing, in Charging with a
\* station as target and a saved context holding its carried shelf.
C10_CriticalToCharging ==
    [][\A a \in Agents :
          (/\ Processing(a)
           /\ Critical(a)
           /\ agent_states[a] # "charging"
           /\ ~env.agents[a].is_charging
           /\ env.agents[a].pos \notin SeqToSet(charging_stations))
              => /\ agent_states'[a] = "charging"
                 /\ agent_targets'[a].has
                 /\ agent_targets'[a].position \in SeqToSet(charging_stations)
                 /\ pre_charging_data'[a].has
                 /\ pre_charging_data'[a].shelf_id = env.agents[a].carrying_shelf]_vars

(***************************************************************************)
(* Claims on both controllers, checked under ControllersSpec.               *)
(***************************************************************************)
ActionValues == {NOOP, FORWARD, LEFT, RIGHT, TOGGLE_LOAD}

\* C11: no get_actions call of either controller raises; while the call
\* runs the vector holds one action for each agent processed so far, in
\* processing order, and the returned vector holds exactly one action per
\* agent, each of them one of NOOP, FORWARD, TURN_LEFT, TURN_RIGHT,
\* TOGGLE_LOAD.
C11_OneActionPerAgent ==
    /\ ~crashed
    /\ idx # 0 => Len(actions) = idx - 1
    /\ idx = 0 => Len(actions) \in {0, Len(AgentOrder)}
    /\ \A i \in 1..Len(actions) : actions[i] \in ActionValues

\* The baseline controller has returned a full vector in which one agent
\* picks a shelf up and the other one, which has found a shelf too heavy
\* before, moves on.
C11_Witness ==
    /\ controller = "baseline"
    /\ idx = Len(AgentOrder) + 1
    /\ Len(actions) = Len(AgentOrder)
    /\ \E a, b \in Agents :
           /\ actions[a] = TOGGLE_LOAD
           /\ picked[a] # 0
           /\ unreachable_shelves[b] # {}
           /\ actions[b] \in {FORWARD, LEFT, RIGHT}

(***************************************************************************)
(* Further claims on the advanced controller, checked under Spec.           *)
(***************************************************************************)
\* The action get_actions emits for the agent it is processing in this step.
Emitted == actions'[idx]

\* C12: whenever an agent whose battery level is 0 or less is processed,
\* the action emitted for it is NOOP, whatever its task state.
C12_DeadAgentNoop ==
    [][\A a \in Agents :
          (Processing(a) /\ env.agents[a].battery_level <= 0) => Emitted = NOOP]_vars

\* Battery above 0 and below the low threshold.
Low(a) ==
    /\ env.agents[a].battery_level > 0
    /\ Pct100(env, a) < low_battery_threshold * battery_capacity

\* C13: an agent in SeekShelf, Deliver, ReturnShelf or NoTask whose battery
\* is above 0 and below 20%, that is not charging and not on a station cell,
\* is in Charging with a station as target once it has been processed; below
\* 10% the critical branch decides and no low-battery event is recorded in
\* the same tick.
C13_LowToCharging ==
    [][\A a \in Agents :
          (/\ Processing(a)
           /\ Low(a)
           /\ agent_states[a] \in {"seek_shelf", "deliver", "return_shelf", "no_shelf_to_carry"}
           /\ ~env.agents[a].is_charging
           /\ env.agents[a].pos \notin SeqToSet(charging_stations))
              => /\ agent_states'[a] = "charging"
                 /\ agent_targets'[a].has
                 /\ agent_targets'[a].position \in SeqToSet(charging_stations)
                 /\ Critical(a) =>
                        /\ metrics'.critical_battery_events = metrics.critical_battery_events + 1
                        /\ metrics'.low_battery_events = metrics.low_battery_events]_vars

\* C14: once an agent has been processed, it has a saved context only if
\* its state is Charging; a context is created only by a step that takes
\* the agent into Charging, and a step that takes the agent out of Charging
\* leaves no context behind.
C14_ContextOnlyWhileCharging ==
    [][\A a \in Agents : Processing(a) =>
          /\ pre_charging_data'[a].has => agent_states'[a] = "charging"
          /\ (~pre_charging_data[a].has /\ pre_charging_data'[a].has)
                 => (agent_states[a] # "charging" /\ agent_states'[a] = "charging")
          /\ (agent_states[a] = "charging" /\ agent_states'[a] # "charging")
                 => ~pre_charging_data'[a].has]_vars

\* The controller record as the processing of one agent leaves it, ready for
\* the next agent of the same pass.
NextAgent(r) == [r EXCEPT !.action = -1, !.picked = 0, !.selected = 0, !.error = FALSE]

\* Shelf s is requested, not carried, not reserved, and the nearest
\* eligible shelf for every agent as the pass begins.
NearestForAll(s) ==
    /\ reserved_shelves[s] = 0
    /\ \A a \in Agents : SelectShelf(Ctl, env, a) = s

\* Both agents run their selection in this pass, the first one chooses s,
\* and the later one neither chooses nor reserves s.
FirstWins(r1, r2, first, later, s) ==
    (r1.selected # 0 /\ r2.selected # 0)
        => /\ r1.selected = s
           /\ r2.selected # s
           /\ r2.reserved_shelves[s] # later

FirstThenLater(r1, first, later, s) ==
    FirstWins(r1, ProcessAgent(NextAgent(r1), env, later), first, later, s)

\* C15: at the start of a pass in which the same unreserved shelf is the
\* nearest eligible one for both agents and both agents select, the agent
\* processed first selects it and the agent processed later neither selects
\* nor reserves it in that pass.
C15_FirstProcessedWins ==
    \A s \in Shelves :
        (idx = 1 /\ NearestForAll(s))
            => FirstThenLater(ProcessAgent(Ctl, env, 1), 1, 2, s)

\* C16: when an agent in SeekShelf whose target is a shelf is processed, stays
\* in SeekShelf and does not stand on the target cell, its target (shelf id
\* and cell) is the same after the step: it does not switch to a different
\* shelf before reaching the one it selected.
C16_TargetPersists ==
    [][\A a \in Agents :
          (/\ Processing(a)
           /\ agent_states[a] = "seek_shelf"
           /\ agent_targets[a].has
           /\ agent_targets[a].id # 0
           /\ agent_states'[a] = "seek_shelf"
           /\ env.agents[a].pos # agent_targets[a].position)
              => agent_targets'[a] = agent_targets[a]]_vars

\* C17: when an agent in SeekShelf that holds the reservation of a shelf is
\* processed and re-routed to Charging, the ledger holds no reservation of
\* that shelf for the agent after the step (later steps of the same call do
\* not give it back).
C17_ReservationReleasedOnCharging ==
    [][\A a \in Agents, s \in Shelves :
          (/\ Processing(a)
           /\ agent_states[a] = "seek_shelf"
           /\ reserved_shelves[s] = a
           /\ agent_states'[a] = "charging")
              => reserved_shelves'[s] # a]_vars

\* The saved context of agent a cannot be taken up again on Charging exit:
\* there is none, or it is a SeekShelf context whose shelf left the request
\* queue or is being carried.
NoUsableContext(a) ==
    \/ ~pre_charging_data[a].has
    \/ /\ pre_charging_data[a].state = "seek_shelf"
       /\ pre_charging_data[a].targets.has
       /\ \/ pre_charging_data[a].targets.id \notin SeqToSet(env.request_queue)
          \/ Carried(env, pre_charging_data[a].targets.id)

\* C18: when a Charging agent without a usable saved context is processed
\* and leaves Charging, it is in SeekShelf with no target afterwards, no
\* error is raised and no saved context remains for it.
C18_ChargingExitFallback ==
    [][\A a \in Agents :
          (/\ Processing(a)
           /\ agent_states[a] = "charging"
           /\ NoUsableContext(a)
           /\ agent_states'[a] # "charging")
              => /\ agent_states'[a] = "seek_shelf"
                 /\ ~agent_targets'[a].has
                 /\ ~crashed'
                 /\ ~pre_charging_data'[a].has]_vars

\* C19: when a get_actions call has ended, every agent for which the
\* SeekShelf selection of this call gave a shelf on whose cell the agent
\* stands and whose weight is within its capacity has emitted TOGGLE_LOAD,
\* is in Deliver with an empty action queue, and the ledger holds no
\* reservation of that shelf.
C19_PickupStep ==
    idx = Len(AgentOrder) + 1 =>
        \A a \in Agents, s \in Shelves :
            (/\ selected[a] = s
             /\ env.agents[a].pos = env.shelfs[s]
             /\ shelf_weight[s] <= max_carry_weight[a])
                => /\ actions[a] = TOGGLE_LOAD
                   /\ agent_states[a] = "deliver"
                   /\ last_actions[a] = <<>>
                   /\ reserved_shelves[s] = 0

TaskStates == {"seek_shelf", "deliver", "return_shelf"}

\* The task-state cycle SeekShelf -> Deliver -> ReturnShelf -> SeekShelf.
TaskSuccessor ==
    [st \in TaskStates |->
        IF st = "seek_shelf" THEN "deliver"
        ELSE IF st = "deliver" THEN "return_shelf"
        ELSE "seek_shelf"]

\* The task state a Charging agent returns to.
SavedState(data) == IF data.has THEN data.state ELSE "seek_shelf"

\* C20: when an agent is processed, (1) a change from one of SeekShelf,
\* Deliver, ReturnShelf to another of them is a step of the cycle SeekShelf ->
\* Deliver -> ReturnShelf -> SeekShelf, NoTask counting as SeekShelf; (2) Deliver is left for ReturnShelf
\* only by an agent that carries a shelf and stands on the goal nearest to
\* it, and the emitted action is then TOGGLE_LOAD; (3) NoTask is entered only
\* from SeekShelf and left only for SeekShelf or Charging; (4) an agent that
\* enters Charging has its task state saved (SeekShelf if nothing is saved),
\* the saved state is kept while it is in Charging, and it leaves Charging
\* for the saved state.
C20_TaskStateOrder ==
    [][\A a \in Agents : Processing(a) =>
          LET st == agent_states[a]
              st2 == agent_states'[a]
              before == IF st = "no_shelf_to_carry" THEN "seek_shelf" ELSE st
          IN  /\ (before \in TaskStates /\ st2 \in TaskStates /\ st2 # before)
                    => st2 = TaskSuccessor[before]
              /\ (st = "deliver" /\ st2 = "return_shelf")
                    => /\ env.agents[a].carrying_shelf # 0
                       /\ env.agents[a].pos = closest_goal(env, a)
                       /\ Emitted = TOGGLE_LOAD
              /\ st2 = "no_shelf_to_carry" => st \in {"seek_shelf", "no_shelf_to_carry"}
              /\ (st # "charging" /\ st2 = "charging")
                    => SavedState(pre_charging_data'[a]) = before
              /\ (st = "charging" /\ st2 = "charging")
                    => SavedState(pre_charging_data'[a]) = SavedState(pre_charging_data[a])
              /\ (st = "charging" /\ st2 # "charging")
                    => st2 = SavedState(pre_charging_data[a])]_vars

\* Agent a has just left Deliver for ReturnShelf on its nearest goal with
\* TOGGLE_LOAD, while the other agent is in Charging with SeekShelf saved.
C20_Witness ==
    \E a, b \in Agents :
        /\ idx = a + 1
        /\ Len(actions) = a
        /\ actions[a] = TOGGLE_LOAD
        /\ agent_states[a] = "return_shelf"
        /\ env.agents[a].carrying_shelf # 0
        /\ env.agents[a].pos = closest_goal(env, a)
        /\ agent_states[b] = "charging"
        /\ pre_charging_data[b].has
        /\ pre_charging_data[b].state = "seek_shelf"

(***************************************************************************)
(* Claims on the steps of the advanced controller's task states.            *)
(***************************************************************************)
\* The ReturnShelf branch runs for agent a in this step: the agent is in
\* ReturnShelf with a live battery, no charging preemption and no queued
\* action.
ReturnBranch(a) ==
    /\ Processing(a)
    /\ agent_states[a] = "return_shelf"
    /\ env.agents[a].battery_level > 0
    /\ ~Low(a)
    /\ last_actions[a] = <<>>

\* C21: when the ReturnShelf branch runs for an agent that carries shelf S
\* and stands on S's home cell, the emitted action is TOGGLE_LOAD, the state
\* becomes SeekShelf, target and queue are cleared, and the successful-task
\* count grows by one if a task start is recorded for (agent, S) and is
\* unchanged otherwise; when it runs for an agent that carries no shelf the
\* state becomes SeekShelf and no completion is recorded.
C21_ReturnStep ==
    [][\A a \in Agents :
          LET S == env.agents[a].carrying_shelf
          IN  /\ (ReturnBranch(a) /\ S # 0 /\ env.agents[a].pos = shelf_memory[S])
                    => /\ Emitted = TOGGLE_LOAD
                       /\ agent_states'[a] = "seek_shelf"
                       /\ agent_targets'[a] = NoTarget
                       /\ last_actions'[a] = <<>>
                       /\ metrics'.successful_deliveries =
                              metrics.successful_deliveries +
                              (IF <<a, S>> \in metrics.task_start_times THEN 1 ELSE 0)
              /\ (ReturnBranch(a) /\ S = 0)
                    => /\ agent_states'[a] = "seek_shelf"
                       /\ metrics'.successful_deliveries = metrics.successful_deliveries
                       /\ metrics'.total_deliveries = metrics.total_deliveries]_vars

\* Agent a has just returned its shelf: it stands on the home cell of the
\* shelf it carries, emitted TOGGLE_LOAD, is back in SeekShelf without a
\* target, and a delivery has been counted.
C21_Witness ==
    \E a \in Agents :
        /\ idx = a + 1
        /\ Len(actions) = a
        /\ actions[a] = TOGGLE_LOAD
        /\ agent_states[a] = "seek_shelf"
        /\ agent_targets[a] = NoTarget
        /\ env.agents[a].carrying_shelf # 0
        /\ env.agents[a].pos = shelf_memory[env.agents[a].carrying_shelf]
        /\ metrics.successful_deliveries > 0

\* Shelf s of the request queue can be taken by agent a: it is not carried,
\* not reserved by another agent within the TTL, and within a's carry weight.
Takeable(a, s) ==
    /\ s \in SeqToSet(env.request_queue)
    /\ \A o \in Agents : env.agents[o].carrying_shelf # s
    /\ ~(/\ reserved_shelves[s] \notin {0, a}
         /\ current_step - shelf_reservation_time[s] < ReservationTTL)
    /\ shelf_weight[s] <= max_carry_weight[a]

\* C22: (1) an agent that is in SeekShelf or NoTask when it is processed is
\* in NoTask after the step exactly when no shelf of the request queue is
\* takeable by it; (2) an agent in NoTask with a live battery and no
\* charging preemption, processed on a tick where a takeable shelf exists,
\* is back in SeekShelf (or already in Deliver) and has selected a shelf in
\* that step.
C22_NoTask ==
    [][\A a \in Agents :
          /\ (Processing(a) /\ agent_states[a] \in {"seek_shelf", "no_shelf_to_carry"})
                => (agent_states'[a] = "no_shelf_to_carry"
                        <=> ~\E s \in Shelves : Takeable(a, s))
          /\ (/\ Processing(a)
              /\ agent_states[a] = "no_shelf_to_carry"
              /\ env.agents[a].battery_level > 0
              /\ ~Low(a)
              /\ \E s \in Shelves : Takeable(a, s))
                => /\ agent_states'[a] \in {"seek_shelf", "deliver"}
                   /\ selected'[a] # 0]_vars

\* Cell pos touches a shelf home cell in one of the 8 directions.
NextToShelf(pos) ==
    \E s \in Shelves :
        /\ shelf_memory[s] # pos
        /\ Abs(shelf_memory[s][1] - pos[1]) <= 1
        /\ Abs(shelf_memory[s][2] - pos[2]) <= 1

\* A cell fit for waiting: no shelf cell, goal or charging station, and not
\* next to a shelf.
FitForWaiting(pos) ==
    /\ \A s \in Shelves : shelf_memory[s] # pos
    /\ pos \notin SeqToSet(goal_locations)
    /\ pos \notin SeqToSet(charging_stations)
    /\ ~NextToShelf(pos)

\* C23: after every step each assigned waiting area is a cell fit for
\* waiting; the assignment of an agent that is processed in NoTask and stays
\* in NoTask does not change once made; and an agent in NoTask that stands
\* on its waiting area emits NOOP.
C23_WaitingAreas ==
    [][\A a \in Agents :
          /\ assigned_waiting_areas'[a] # NoCell
                => FitForWaiting(assigned_waiting_areas'[a])
          /\ (/\ Processing(a)
              /\ agent_states[a] = "no_shelf_to_carry"
              /\ agent_states'[a] = "no_shelf_to_carry"
              /\ assigned_waiting_areas[a] # NoCell)
                => assigned_waiting_areas'[a] = assigned_waiting_areas[a]
          /\ (/\ Processing(a)
              /\ agent_states'[a] = "no_shelf_to_carry"
              /\ env.agents[a].pos = assigned_waiting_areas'[a])
                => Emitted = NOOP]_vars

\* Position of shelf s in the request queue.
QueueIndex(s) == CHOOSE i \in 1..Len(env.request_queue) : env.request_queue[i] = s

ShelfDistance(a, s) == Manhattan(_get_aligned_position(env.shelfs[s]), env.agents[a].pos)

\* Shelf s is the one the selection has to give agent a: takeable, at
\* minimal Manhattan distance among the takeable shelves, and first in the
\* request queue among those at that distance.
BestShelf(a, s) ==
    /\ Takeable(a, s)
    /\ \A t \in Shelves : Takeable(a, t) =>
          \/ ShelfDistance(a, s) < ShelfDistance(a, t)
          \/ ShelfDistance(a, s) = ShelfDistance(a, t) /\ QueueIndex(s) <= QueueIndex(t)

\* The ledger of controller record r holds shelf s for agent a since the
\* current tick.
ReservedNow(r, a, s) ==
    /\ r.reserved_shelves[s] = a
    /\ r.shelf_reservation_time[s] = current_step

\* C24: in every state, for every agent, the shelf selection gives the
\* takeable shelf of the request queue at minimal Manhattan distance, the
\* first in queue order on ties, and gives nothing exactly when no shelf is
\* takeable; and the reservation step writes the selected shelf to the
\* ledger for the agent with the current tick.
C24_ShelfSelection ==
    \A a \in Agents :
        /\ SelectShelf(Ctl, env, a) = 0 <=> ~\E s \in Shelves : Takeable(a, s)
        /\ \A s \in Shelves : SelectShelf(Ctl, env, a) = s =>
              /\ BestShelf(a, s)
              /\ ReservedNow(SeekReserve(Ctl, env, a, s), a, s)

\* An agent in SeekShelf has just selected and reserved the shelf that comes
\* second by id but first in the request queue, both shelves being takeable
\* and at the same distance.
C24_Witness ==
    \E a \in Agents :
        /\ idx = a + 1
        /\ env.request_queue = <<2, 1>>
        /\ \A o \in Agents : env.agents[o].carrying_shelf = 0
        /\ ShelfDistance(a, 1) = ShelfDistance(a, 2)
        /\ shelf_weight[2] <= max_carry_weight[a]
        /\ selected[a] = 2
        /\ reserved_shelves[2] = a
        /\ shelf_reservation_time[2] = current_step
        /\ reserved_shelves[1] = 0

OnStation(a) == env.agents[a].pos \in SeqToSet(charging_stations)

\* C25: (1) when an agent in Charging that stands on a station with its
\* battery at capacity is processed, its state becomes the saved state; if
\* the saved state is Deliver or ReturnShelf and the saved shelf is still
\* carried, its target cell becomes the saved goal or home cell; if the
\* saved state is SeekShelf and the saved shelf is still requested and not
\* carried, its target becomes the saved shelf id and cell; and the saved
\* context is deleted.  (2) When an agent in Charging that stands on a
\* station with its battery below capacity is processed, it stays in
\* Charging and emits NOOP.
C25_ChargingRoundTrip ==
    [][\A a \in Agents :
          LET data == pre_charging_data[a] IN
          /\ (/\ Processing(a)
              /\ agent_states[a] = "charging"
              /\ OnStation(a)
              /\ env.agents[a].battery_level = battery_capacity
              /\ data.has)
                => /\ agent_states'[a] = data.state
                   /\ (/\ data.state \in {"deliver", "return_shelf"}
                       /\ data.targets.has
                       /\ env.agents[a].carrying_shelf = data.targets.id)
                         => agent_targets'[a].position = data.targets.position
                   /\ (/\ data.state = "seek_shelf"
                       /\ data.targets.has
                       /\ data.targets.id \in SeqToSet(env.request_queue)
                       /\ ~Carried(env, data.targets.id))
                         => /\ agent_targets'[a].id = data.targets.id
                            /\ agent_targets'[a].position = data.targets.position
                   /\ ~pre_charging_data'[a].has
          /\ (/\ Processing(a)
              /\ agent_states[a] = "charging"
              /\ OnStation(a)
              /\ env.agents[a].battery_level < battery_capacity)
                => /\ agent_states'[a] = "charging"
                   /\ Emitted = NOOP]_vars

\* Position of station st in the fixed corner order.
CornerIndex(st) == CHOOSE i \in 1..Len(charging_stations) : charging_stations[i] = st

\* Station st comes before station t for agent a: nearer, or as near and
\* earlier in the corner order.
StationBefore(a, st, t) ==
    \/ Manhattan(st, env.agents[a].pos) < Manhattan(t, env.agents[a].pos)
    \/ /\ Manhattan(st, env.agents[a].pos) = Manhattan(t, env.agents[a].pos)
       /\ CornerIndex(st) <= CornerIndex(t)

\* Station st is unoccupied or has an occupant with battery above 90%.
StationQualifies(st) ==
    \/ \A o \in Agents : env.agents[o].pos # st
    \/ \E o \in Agents : /\ env.agents[o].pos = st
                         /\ env.agents[o].battery_level * 100 > 90 * battery_capacity

\* The station the selection has to give agent a when it is not on a
\* station: the first qualifying one, the nearest one if none qualifies.
ExpectedStation(a, st) ==
    IF \E t \in SeqToSet(charging_stations) : StationQualifies(t)
    THEN /\ StationQualifies(st)
         /\ \A t \in SeqToSet(charging_stations) : StationQualifies(t) => StationBefore(a, st, t)
    ELSE \A t \in SeqToSet(charging_stations) : StationBefore(a, st, t)

\* C26: in every state, for every agent, the charging-station selection
\* gives no station exactly when the agent stands on a station cell, and
\* otherwise the first station in ascending Manhattan distance (ties in the
\* corner order) that is unoccupied or has an occupant above 90%, the
\* nearest station if none is.
C26_StationSelection ==
    \A a \in Agents :
        /\ _get_closest_charging_station(env, a) = NoCell <=> OnStation(a)
        /\ ~OnStation(a) =>
              /\ _get_closest_charging_station(env, a) \in SeqToSet(charging_stations)
              /\ ExpectedStation(a, _get_closest_charging_station(env, a))

\* Agent a has just been sent to a station that is not its nearest one: the
\* nearest is occupied by an agent at 90% or below.
C26_Witness ==
    \E a \in Agents, o \in Agents, t \in SeqToSet(charging_stations) :
        /\ idx = a + 1
        /\ ~OnStation(a)
        /\ env.agents[o].pos = t
        /\ env.agents[o].battery_level * 100 <= 90 * battery_capacity
        /\ \A u \in SeqToSet(charging_stations) : StationBefore(a, t, u)
        /\ agent_states[a] = "charging"
        /\ agent_targets[a].position = _get_closest_charging_station(env, a)
        /\ agent_targets[a].position # t

\* Station st is empty and is the first station in ascending distance for
\* both agents, while another station is empty too.
SharedNearestStation(st) ==
    /\ \A o \in Agents : env.agents[o].pos # st
    /\ \A a \in Agents : \A u \in SeqToSet(charging_stations) : StationBefore(a, st, u)
    /\ \E u \in SeqToSet(charging_stations) \ {st} : \A o \in Agents : env.agents[o].pos # u

\* r1 is the controller after the first agent's iteration and r2 after the
\* later agent's: if both entered Charging, the first has station st as
\* target and the later one has another station.
FirstGetsStation(r1, r2, first, later, st) ==
    (/\ agent_states[first] # "charging"
     /\ agent_states[later] # "charging"
     /\ r1.agent_states[first] = "charging"
     /\ r2.agent_states[later] = "charging")
        => /\ r1.agent_targets[first].position = st
           /\ r2.agent_targets[later].position # st

StationFirstThenLater(r1, first, later, st) ==
    FirstGetsStation(r1, ProcessAgent(NextAgent(r1), env, later), first, later, st)

\* C27: at the start of a get_actions call in which both agents enter
\* Charging and the same empty station is the nearest for both while another
\* station is free, the agent processed first gets that station as target
\* and the agent processed later gets a different station.
C27_StationFirstWins ==
    \A st \in SeqToSet(charging_stations) :
        (idx = 1 /\ SharedNearestStation(st))
            => StationFirstThenLater(ProcessAgent(Ctl, env, 1), 1, 2, st)


\* The station targeted by a is held by another agent whose battery is
\* below 90% while a itself stands elsewhere.
StationContended(a) ==
    /\ agent_targets[a].has
    /\ agent_targets[a].position \in SeqToSet(charging_stations)
    /\ env.agents[a].pos # agent_targets[a].position
    /\ \E o \in Agents \ {a} :
          /\ env.agents[o].pos = agent_targets[a].position
          /\ Pct100(env, o) < 90 * battery_capacity

\* C28: an agent that is in Charging with the same target station before
\* and after it is processed, has battery left, does not stand on that
\* station, and whose station is held by another agent with battery below
\* 90%, emits TURN_LEFT or TURN_RIGHT in that tick, never NOOP or FORWARD.
C28_WaitPattern ==
    [][\A a \in Agents :
          (/\ Processing(a)
           /\ agent_states[a] = "charging"
           /\ agent_states'[a] = "charging"
           /\ agent_targets'[a] = agent_targets[a]
           /\ env.agents[a].battery_level > 0
           /\ StationContended(a))
              => Emitted \in {LEFT, RIGHT}]_vars


\* The agent goes into recovery while it is processed.
EntersRecovery(a) == ~in_recovery[a] /\ in_recovery'[a]

\* C29: when an agent is processed by the advanced controller, it enters
\* recovery exactly if it has battery left, its stuck counter after this
\* tick's update exceeds 1, it was not recovering, it is not charging and it
\* is not in NoTask; the entry empties its action queue; the collision count
\* grows by one on an entry and does not change otherwise, so no collision
\* is recorded for an agent that is still recovering.
C29_RecoveryEntry ==
    [][\A a \in Agents :
          Processing(a) =>
              /\ EntersRecovery(a) <=> (/\ env.agents[a].battery_level > 0
                                        /\ stuck_count'[a] > 1
                                        /\ ~in_recovery[a]
                                        /\ ~env.agents[a].is_charging
                                        /\ agent_states[a] # "no_shelf_to_carry")
              /\ EntersRecovery(a) =>
                    StuckEnter(StuckCount(Ctl, env, a), env, a).last_actions[a] = <<>>
              /\ metrics'.collision_count =
                    metrics.collision_count + (IF EntersRecovery(a) THEN 1 ELSE 0)]_vars

C29_Witness ==
    \E i \in 1..Len(AgentOrder) :
        /\ idx = i + 1
        /\ in_recovery[AgentOrder[i]]
        /\ stuck_count[AgentOrder[i]] = 2
        /\ AgentOrder[i] \in metrics.in_recovery
        /\ metrics.collision_count = 1


\* C30: on the tick an agent enters recovery, the action emitted for it is
\* the first action of the recovery maneuver of some tick: TURN_LEFT if it
\* carries a shelf, TURN_LEFT or TURN_RIGHT otherwise.
C30_RecoveryManeuver ==
    [][\A a \in Agents :
          (Processing(a) /\ EntersRecovery(a))
              => \E tick \in 0..2 :
                    Emitted = Head(_get_recovery_actions(env, a, tick))]_vars


\* C31: when an agent that is in recovery and has battery left is processed
\* on a tick at which its position differs from the one of the previous
\* tick (it moved, so the action it issued was FORWARD), it is out of
\* recovery afterwards, its stuck counter is 0, and one recovery completion
\* is recorded with the number of ticks spent recovering, this one included.
C31_RecoveryExit ==
    [][\A a \in Agents :
          (/\ Processing(a)
           /\ in_recovery[a]
           /\ env.agents[a].battery_level > 0
           /\ env.agents[a].pos # last_positions[a])
              => /\ ~in_recovery'[a]
                 /\ stuck_count'[a] = 0
                 /\ metrics'.recovery_steps_count =
                       Append(metrics.recovery_steps_count,
                              metrics.recovery_steps[a] + 1)]_vars


\* The agent has no task in progress: it carries nothing, has no selected
\* shelf, holds no reservation and has no shelf in its saved context.
NoTaskInProgress(a) ==
    /\ env.agents[a].carrying_shelf = 0
    /\ agent_targets[a].id = 0
    /\ \A s \in Shelves : reserved_shelves[s] # a
    /\ ~pre_charging_data[a].has

\* C32: when an agent with battery 0 and no task in progress is processed,
\* the failed and the total delivery counts do not change.
C32_DepletedNoTask ==
    [][\A a \in Agents :
          (/\ Processing(a)
           /\ env.agents[a].battery_level <= 0
           /\ NoTaskInProgress(a))
              => /\ metrics'.failed_deliveries = metrics.failed_deliveries
                 /\ metrics'.total_deliveries = metrics.total_deliveries]_vars


\* The controller state of agent a after the NoTask test, the battery
\* checks and the stuck bookkeeping of a tick (lines 320-421), before the
\* queue is looked at.
BeforeDispatch(c, e, a) ==
    StuckCheck(LowCheck(CriticalCheck(
        IF c.agent_states[a] = "no_shelf_to_carry"
        THEN [c EXCEPT !.agent_states[a] = "seek_shelf"]
        ELSE c, e, a), e, a), e, a)

\* The agent gets past the dead-battery test and the NoTask branch.
ReachesDispatch(c, e, a) ==
    /\ e.agents[a].battery_level > 0
    /\ ~(c.agent_states[a] = "no_shelf_to_carry" /\ ~_can_carry_any_shelf(c, e, a))

\* The queue of a was drained by one action and nothing else of c changed.
DrainedOnly(c, a) ==
    /\ Emitted = Head(c.last_actions[a])
    /\ last_actions'[a] = Tail(c.last_actions[a])
    /\ selected'[a] = 0
    /\ picked'[a] = 0
    /\ reserved_shelves' = c.reserved_shelves
    /\ shelf_reservation_time' = c.shelf_reservation_time
    /\ agent_targets' = c.agent_targets
    /\ agent_states' = c.agent_states

\* C33: when a processed agent reaches the battery checks and its action
\* queue is non-empty after the battery checks and the stuck bookkeeping,
\* the emitted action is the head of that queue, the queue becomes its tail,
\* and no shelf is selected or picked, no reservation is written or removed,
\* and the target and the state stay as the battery checks left them.
C33_QueueFirst ==
    [][\A a \in Agents :
          LET c0 == NoTaskCheck(Ctl, env, a)
          IN  (/\ Processing(a)
               /\ ReachesDispatch(c0, env, a)
               /\ BeforeDispatch(c0, env, a).last_actions[a] # <<>>)
                  => DrainedOnly(BeforeDispatch(c0, env, a), a)]_vars

C33_Witness ==
    \E i \in 1..Len(AgentOrder) :
        /\ idx = i + 1
        /\ agent_states[AgentOrder[i]] = "seek_shelf"
        /\ agent_targets[AgentOrder[i]].id # 0
        /\ reserved_shelves[agent_targets[AgentOrder[i]].id] = AgentOrder[i]
        /\ selected[AgentOrder[i]] = 0
        /\ actions[i] = FORWARD
        /\ last_actions[AgentOrder[i]] # <<>>


\* The states in which shelves are blocked for the planner.
ShelfBlockingStates == {"deliver", "return_shelf", "charging"}

\* C34: for an agent in Deliver, ReturnShelf or Charging, the blocked set
\* contains the current cell of every shelf it does not carry and, if it
\* carries a shelf, not the current cell of that shelf (its own cell).
C34_BlockedShelves ==
    \A a \in Agents :
        agent_states[a] \in ShelfBlockingStates
            => LET B == get_blocked_positions(agent_states, env, a)
                   S == env.agents[a].carrying_shelf
               IN  /\ \A s \in Shelves \ {S} : env.shelfs[s] \in B
                   /\ S # 0 => env.shelfs[S] \notin B


\* C35: the blocked set computed for an agent contains the cell of every
\* other agent and every obstacle cell; for an agent in SeekShelf or NoTask
\* it contains nothing else, so no cell is blocked because of a shelf.
C35_BlockedAgentsObstacles ==
    plan.pc = "blocked"
        => LET a == idx
               others == {env.agents[o].pos : o \in Agents \ {a}}
           IN  /\ others \subseteq plan.blocked
               /\ env.obstacles \subseteq plan.blocked
               /\ agent_states[a] \in {"seek_shelf", "no_shelf_to_carry"}
                     => plan.blocked = others \cup env.obstacles

C35_Witness ==
    /\ plan.pc = "blocked"
    /\ agent_states[idx] = "seek_shelf"
    /\ env.obstacles # {}
    /\ env.obstacles \subseteq plan.blocked
    /\ \E s \in Shelves :
          /\ env.shelfs[s] = shelf_memory[s]
          /\ env.shelfs[s] \notin plan.blocked


\* Agent a, in SeekShelf, has selected shelf s in this call, stands on its
\* cell, and the shelf is heavier than the agent may carry.
OverWeightOnShelf(a, s) ==
    /\ Processing(a)
    /\ agent_states[a] = "seek_shelf"
    /\ selected'[a] = s
    /\ env.agents[a].pos = env.shelfs[s]
    /\ shelf_weight[s] > max_carry_weight[a]

\* The shelf the next allocation of a would select.
NextSelection(a) ==
    IF controller = "baseline"
    THEN BaselineSelectShelf(Ctl', env, a)
    ELSE SelectShelf(Ctl', env, a)

\* C36: in both controllers (1) an agent that carries nothing emits
\* TOGGLE_LOAD only on a cell whose standing shelves weigh at most its max
\* carry weight; (2) an agent in SeekShelf that stands on the shelf it has
\* selected and may not carry it stays in SeekShelf, emits no TOGGLE_LOAD,
\* one over-capacity attempt is recorded, it holds no reservation on the
\* shelf afterwards, and its next allocation does not select that shelf.
C36_OverWeightPickup ==
    [][\A a \in Agents :
          /\ (/\ Processing(a)
              /\ env.agents[a].carrying_shelf = 0
              /\ Emitted = TOGGLE_LOAD)
                 => \A s \in Shelves :
                       (env.shelfs[s] = env.agents[a].pos /\ ~Carried(env, s))
                           => shelf_weight[s] <= max_carry_weight[a]
          /\ \A s \in Shelves :
                OverWeightOnShelf(a, s)
                    => /\ agent_states'[a] = "seek_shelf"
                       /\ Emitted # TOGGLE_LOAD
                       /\ metrics'.overcapacity_attempts = metrics.overcapacity_attempts + 1
                       /\ reserved_shelves'[s] # a
                       /\ NextSelection(a) # s]_vars


C36_Witness ==
    \E i \in 1..Len(AgentOrder), s \in Shelves :
        /\ controller = "baseline"
        /\ idx = i + 1
        /\ selected[AgentOrder[i]] = s
        /\ env.agents[AgentOrder[i]].pos = env.shelfs[s]
        /\ shelf_weight[s] > max_carry_weight[AgentOrder[i]]
        /\ agent_states[AgentOrder[i]] = "seek_shelf"
        /\ actions[i] = NOOP
        /\ s \in unreachable_shelves[AgentOrder[i]]
        /\ metrics.overcapacity_attempts = 1


\* C37: at the end of every tick of the advanced controller no shelf is
\* the target of two agents in SeekShelf.
C37_NoDuplicateTarget ==
    (controller = "advanced" /\ idx = Len(AgentOrder) + 1)
        => \A s \in Shelves :
              Cardinality({a \in Agents : /\ agent_states[a] = "seek_shelf"
                                          /\ agent_targets[a].id = s}) <= 1


\* C38: between two consecutive get_actions calls of the advanced
\* controller's run loop, that is over the world step that follows a call,
\* the tick counter used for reservations grows by exactly one.
C38_TickAdvances ==
    [][(/\ controller = "advanced"
        /\ idx = Len(AgentOrder) + 1
        /\ idx' = 0)
          => current_step' = current_step + 1]_vars


\* The battery of the single agent is below the low-battery threshold of 20%.
SoloBatteryLow ==
    /\ env.agents[1].battery_level >= 0
    /\ env.agents[1].battery_level * 100 < low_battery_threshold * battery_capacity

C40_TurnToFace ==
    /\ \A desired \in Dirs \ {plan.dir} :
           LET turns == _turn_to_face(plan.dir, desired) IN
           /\ Len(turns) \in 1..2
           /\ \A i \in 1..Len(turns) : turns[i] \in {LEFT, RIGHT}
           /\ ReplayEnd(plan.pos, plan.dir, turns).dir = desired
           /\ _validate_action_sequence(plan.pos, plan.dir, turns, plan.blocked)
    /\ ReplayEnd(plan.pos, plan.dir, <<LEFT, LEFT, LEFT, LEFT>>).dir = plan.dir
    /\ ReplayEnd(plan.pos, plan.dir, <<LEFT, RIGHT>>).dir = plan.dir

\* A plan that starts with the half turn of _turn_to_face and then moves on
\* in the desired facing.
C40_Witness ==
    /\ Planned
    /\ Len(plan.astar) >= 3
    /\ \E desired \in Dirs \ {plan.dir} :
           /\ Len(_turn_to_face(plan.dir, desired)) = 2
           /\ SubSeq(plan.astar, 1, 2) = _turn_to_face(plan.dir, desired)
           /\ plan.astar[3] = FORWARD
           /\ ReplayEnd(plan.pos, plan.dir, SubSeq(plan.astar, 1, 3)).dir = desired

====
